---- MODULE Spec2Model ----
(***************************************************************************)
(* A model of the role-prompt back office (FullStackFastAPI backend):      *)
(* the task lifecycle (start / stop routes and the single-task executor),  *)
(* the batch manager with its HTTP actions, the gateway's rate limiter and *)
(* circuit breaker, and the result aggregator.                             *)
(*                                                                         *)
(* Each component has its own specification over the shared variables:     *)
(*   Spec      task start/stop routes + background executor threads        *)
(*   SpecBatch batch manager, batch action route, monitor, queue workers   *)
(*   SpecRL    RateLimiter.acquire                                         *)
(*   SpecCB    CircuitBreaker + ExternalApiClient.call_generate_api        *)
(*   SpecAgg   ResultAggregator runs, one after another                    *)
(*   SpecSync  the legacy synchronizer route                               *)
(*   SpecApi   the API router, its mounts and its access gates             *)
(*   SpecDispatch  TaskDispatcher.dispatch_tasks beside the queue workers  *)
(*   SpecCrud  the RoleDir and Role routes                                 *)
(*   SpecPatch the PATCH routes of RoleDir, Role and task rows             *)
(*   SpecStat  the progress and success rate of a BatchExecution           *)
(*   SpecMerge _deep_merge_dict of the legacy synchronizer                 *)
(*   SpecExtract the batch number of a task name and the batch groups      *)
(*   SpecList  list_active_batches under the lock of the batch map         *)
(*   SpecOverlap aggregations of one role that overlap in time             *)
(*   SpecResync sync requests with task PATCH requests between them      *)
(*   SpecJson  execute_task on JSON tasks and other tasks                  *)
(*   SpecConn  the key-value-store client of the batch handlers            *)
(* The database, the key-value store and the job queue are taken to work   *)
(* as their callers expect; a commit may raise where the code handles it.  *)
(***************************************************************************)
EXTENDS Integers, Sequences, FiniteSets, Bags, TLC

\* ------------------------------------------------------------------ bounds
NumTasks == 2      \* rows of task_creat_role_prompt
NumThreads == 2    \* executor threads alive at the same time
NumReqs == 1       \* start requests between their commit and their hand-off
MaxApiRequests == 3  \* requests to the API router that are followed
NumCallers == 2    \* coroutines calling the gateway at the same time
MaxClock == 125    \* seconds of wall-clock time followed
max_requests == 2  \* RateLimiter(max_requests_per_minute)
failure_threshold == 2  \* CircuitBreaker(failure_threshold)
MaxInitRows == 2   \* role_prompt rows of the role before the first aggregation
MaxInitVersion == 2  \* largest version among those rows
MaxAggs == 2       \* aggregations of the role, one after another
MaxDirRows == 2    \* roles_dir rows ever created
MaxRoleRows == 2   \* roles rows ever created
MaxTotal == 10     \* total_tasks of the batch whose figures are computed

Tasks == 1..NumTasks
\* Spec follows one row of the table: the start and stop routes and an executor
\* thread read and write only the row of their own task id
TaskRows == {1}

\* task_state codes (spec 4.9; batch_manager.TaskStatus adds Q, T, X; sync adds S)
TaskStates == {"P", "W", "R", "C", "F", "Q", "T", "X", "S"}

VARIABLES
  \* ---- table task_creat_role_prompt
  task_state,        \* [Tasks -> TaskStates]
  role_item_prompt,  \* [Tasks -> [kind, previous_state]]
  task_role,         \* [Tasks -> Roles]: role_id, the role of the task
  \* ---- start requests in flight (a bag of [task, seen]), HTTP answer
  startReq,
  lastResp,          \* [kind, task, seen, code]: the HTTP answer given by the step
                     \* just taken, NoResp after a step that answers nothing
  \* ---- background threads of execute_task_background, a bag of
  \*      [pc, task, attempt, hist, cfail, rfail]; hist is the sequence of
  \*      states the current execute_task has committed, cfail the number of
  \*      failed commits of C, rfail whether the load / R commit raised
  th,
  lastRun            \* the record of the execute_task that the step just taken
                     \* ended, NoRun after any other step

dbVars == <<task_state, role_item_prompt>>
routeVars == <<startReq, lastResp, th, lastRun>>

\* ------------------------------------------------------- role_item_prompt
EmptyPrompt == [kind |-> "empty", previous_state |-> "-"]
\* {"content": ..., "generated_at": ...} or the repaired JSON structure
ResultPrompt == [kind |-> "result", previous_state |-> "-"]
\* {"error": <message>, "failed_at": ...}
ErrorPrompt == [kind |-> "error", previous_state |-> "-"]
\* variant: a start route whose except block stores the bare exception message
StartFailedNoPrefix == [kind |-> "error", previous_state |-> "-"]
\* {"error": "启动失败: ...", "failed_at": ...}
StartFailedPrompt == [kind |-> "start_failed", previous_state |-> "-"]
\* {"error": "任务被用户手动停止", "stopped_at": ..., "previous_state": s}
StoppedPrompt(s) == [kind |-> "stopped", previous_state |-> s]

NoResp == [kind |-> "none", task |-> 0, seen |-> "-", code |-> 0]
Resp(kind, t, seen, code) == [kind |-> kind, task |-> t, seen |-> seen, code |-> code]

\* task is the task of the thread and over the role_item_prompt its row held
\* when the thread took its last step
NoRun == [hist |-> <<>>, cfail |-> 0, rfail |-> FALSE, ended |-> FALSE,
          task |-> 0, over |-> EmptyPrompt]
RunOf(x, h) == [hist |-> h, cfail |-> x.cfail, rfail |-> x.rfail, ended |-> TRUE,
                task |-> x.task, over |-> role_item_prompt[x.task]]

\* a bag with element x replaced by y, with x removed, with y added
Swap(b, x, y) == (b (-) SetToBag({x})) (+) SetToBag({y})
Drop(b, x) == b (-) SetToBag({x})
Put(b, y) == b (+) SetToBag({y})

\* ------------------------------------------------------------ start route
\* variant: a start route that also restarts completed tasks
StartAllowedAlsoC(s) == s \in {"P", "F", "C"}

\* the state check of start_task_creat_role_prompt
StartAllowed(s) == s \in {"P", "F"}

\* start_task_creat_role_prompt, from session.get to the commit of W (or the
\* 400): one transaction on the row
StartCheck(t) ==
  /\ BagCardinality(startReq) < NumReqs
  /\ IF StartAllowed(task_state[t])
       THEN /\ task_state' = [task_state EXCEPT ![t] = "W"]
            /\ startReq' = Put(startReq, [task |-> t, seen |-> task_state[t]])
            /\ lastResp' = NoResp
       ELSE /\ lastResp' = Resp("start", t, task_state[t], 400)
            /\ UNCHANGED <<task_state, startReq>>
  /\ lastRun' = NoRun
  /\ UNCHANGED <<role_item_prompt, th>>

\* execute_task_background: a new daemon thread for the task
NewThread(t) == [pc |-> "begin", task |-> t, attempt |-> 0, hist |-> <<>>,
                 cfail |-> 0, rfail |-> FALSE]

\* start_task_creat_role_prompt, the hand-off: the thread is started and the
\* route answers 200 (raised = FALSE), or the hand-off raises, the task is reset
\* to F with the start-failure payload and the route answers 500
StartHandoff(q, raised) ==
  /\ BagIn(q, startReq)
  /\ IF ~raised
       THEN /\ BagCardinality(th) < NumThreads
            /\ th' = Put(th, NewThread(q.task))
            /\ lastResp' = Resp("start", q.task, q.seen, 200)
            /\ UNCHANGED <<task_state, role_item_prompt>>
       ELSE /\ task_state' = [task_state EXCEPT ![q.task] = "F"]
            /\ role_item_prompt' =
                 [role_item_prompt EXCEPT ![q.task] = StartFailedPrompt]
            /\ lastResp' = Resp("start", q.task, q.seen, 500)
            /\ UNCHANGED th
  /\ startReq' = Drop(startReq, q)
  /\ lastRun' = NoRun

\* ------------------------------------------------------------- stop route
StopAllowed(s) == s \in {"W", "R"}

\* variant: a stop route that reads previous_state after setting task_state
StopPayloadAfterWrite(previous_state) == StoppedPrompt("F")

\* the payload written by the stop route, from the state read before the write
StopPayload(previous_state) == StoppedPrompt(previous_state)

\* stop_task_creat_role_prompt: one transaction on the row
StopTask(t) ==
  /\ IF StopAllowed(task_state[t])
       THEN /\ task_state' = [task_state EXCEPT ![t] = "F"]
            /\ role_item_prompt' =
                 [role_item_prompt EXCEPT ![t] = StopPayload(task_state[t])]
            /\ lastResp' = Resp("stop", t, task_state[t], 200)
       ELSE /\ lastResp' = Resp("stop", t, task_state[t], 400)
            /\ UNCHANGED <<task_state, role_item_prompt>>
  /\ lastRun' = NoRun
  /\ UNCHANGED <<startReq, th>>

\* --------------------------------------------------- single-task executor
\* execute_with_retry: max_retries
MaxRetries == 2

\* the thread leaves execute_task for good: run_task returns, the thread is gone
EndRun(x, h) ==
  /\ th' = Drop(th, x)
  /\ lastRun' = RunOf(x, h)

\* the thread goes on inside execute_task
Goto(x, y) ==
  /\ th' = Swap(th, x, y)
  /\ lastRun' = NoRun

\* variant: a write that leaves alone a row the stop route has marked
CommitUnlessStopped(x, s, p) ==
  /\ IF role_item_prompt[x.task].kind = "stopped"
       THEN UNCHANGED <<task_state, role_item_prompt>>
       ELSE /\ task_state' = [task_state EXCEPT ![x.task] = s]
            /\ role_item_prompt' = [role_item_prompt EXCEPT ![x.task] = p]
  /\ th' = (th (-) SetToBag({x}))
  /\ lastRun' = [hist |-> Append(x.hist, s), cfail |-> x.cfail, rfail |-> x.rfail,
                 ended |-> TRUE, task |-> x.task, over |-> role_item_prompt[x.task]]

\* one state write of execute_task reaching the database (a successful commit);
\* every such write is the last statement of its path through execute_task
Commit(x, s, p) ==
  /\ task_state' = [task_state EXCEPT ![x.task] = s]
  /\ role_item_prompt' = [role_item_prompt EXCEPT ![x.task] = p]
  /\ EndRun(x, Append(x.hist, s))

\* execute_task: session.get, task_state = "R", commit. ok = FALSE: the load or
\* the commit raises, and control passes to the except block of execute_task
ExecBegin(x, ok) ==
  /\ BagIn(x, th) /\ x.pc = "begin"
  /\ IF ok
       THEN /\ task_state' = [task_state EXCEPT ![x.task] = "R"]
            /\ Goto(x, [x EXCEPT !.pc = "running", !.hist = <<"R">>,
                                 !.cfail = 0, !.rfail = FALSE])
       ELSE /\ Goto(x, [x EXCEPT !.pc = "except", !.hist = <<>>,
                                 !.cfail = 0, !.rfail = TRUE])
            /\ UNCHANGED task_state
  /\ lastResp' = NoResp
  /\ UNCHANGED <<role_item_prompt, startReq>>

\* _mark_task_failed called inside the try block (role not found, no valid
\* answer of the AI API): the commit succeeds, or raises into the except block
MarkFailedInTry(x, ok) ==
  IF ok
    THEN Commit(x, "F", ErrorPrompt)
    ELSE /\ Goto(x, [x EXCEPT !.pc = "except"])
         /\ UNCHANGED <<task_state, role_item_prompt>>

\* asyncio.wait_for cancels execute_task after 300 s: the CancelledError passes
\* the "except Exception" of execute_task; execute_with_retry retries while
\* attempt < max_retries, and the thread ends otherwise
TimedOut(x) ==
  /\ IF x.attempt < MaxRetries
       THEN Goto(x, [x EXCEPT !.pc = "begin", !.attempt = @ + 1])
       ELSE EndRun(x, x.hist)
  /\ UNCHANGED <<task_state, role_item_prompt>>

AiOutcomes == {"no_role", "result", "empty", "timeout"}

\* execute_task from the role lookup to the answer of _call_ai_api_enhanced
ExecCallAI(x, outcome, ok) ==
  /\ BagIn(x, th) /\ x.pc = "running"
  /\ CASE outcome = "result" ->
            /\ Goto(x, [x EXCEPT !.pc = "save"])
            /\ UNCHANGED <<task_state, role_item_prompt>>
       [] outcome = "timeout" -> TimedOut(x)
       [] OTHER -> MarkFailedInTry(x, ok)
  /\ lastResp' = NoResp
  /\ UNCHANGED startReq

\* variant: an executor that does not retry the commit of C
ExecCommitCNoRetry(x, ok) ==
  /\ BagIn(x, th) /\ x.pc = "save"
  /\ IF ok
       THEN Commit(x, "C", ResultPrompt)
       ELSE /\ Goto(x, [x EXCEPT !.pc = "except", !.cfail = @ + 1])
            /\ UNCHANGED <<task_state, role_item_prompt>>
  /\ lastResp' = NoResp
  /\ UNCHANGED startReq

\* execute_task: task_state = "C" with the result, first commit
ExecCommitC(x, ok) ==
  /\ BagIn(x, th) /\ x.pc = "save"
  /\ IF ok
       THEN Commit(x, "C", ResultPrompt)
       ELSE /\ Goto(x, [x EXCEPT !.pc = "retry", !.cfail = @ + 1])
            /\ UNCHANGED <<task_state, role_item_prompt>>
  /\ lastResp' = NoResp
  /\ UNCHANGED startReq

\* execute_task: rollback, refresh, the same write again, second commit;
\* a second failure raises into the except block
ExecRetryC(x, ok) ==
  /\ BagIn(x, th) /\ x.pc = "retry"
  /\ IF ok
       THEN Commit(x, "C", ResultPrompt)
       ELSE /\ Goto(x, [x EXCEPT !.pc = "except", !.cfail = @ + 1])
            /\ UNCHANGED <<task_state, role_item_prompt>>
  /\ lastResp' = NoResp
  /\ UNCHANGED startReq

\* execute_task, except block: a new session marks the task F; a failure of
\* that write is swallowed
ExecExcept(x, ok) ==
  /\ BagIn(x, th) /\ x.pc = "except"
  /\ IF ok
       THEN Commit(x, "F", ErrorPrompt)
       ELSE /\ EndRun(x, x.hist)
            /\ UNCHANGED <<task_state, role_item_prompt>>
  /\ lastResp' = NoResp
  /\ UNCHANGED startReq

ThreadRecs == BagToSet(th)

\* ------------------------------------------------------------ batch manager
\* One batch, created by POST /batches while its tasks were P. Every HTTP
\* request builds its own BatchManager, whose active_batches is empty: the
\* request's BatchExecution object is rebuilt from the persisted description.
\* The manager of the start request lives on with the monitor it spawned.

BatchStatuses == {"PENDING", "RUNNING", "PAUSED", "COMPLETED", "FAILED", "CANCELLED"}
BatchActions == {"start", "pause", "resume", "cancel"}
JobStates == {"none", "queued", "started", "finished", "canceled"}

VARIABLES
  batchStore,   \* status in the persisted description (key batch:<batch_id>)
  job,          \* [Tasks -> JobStates]: the queue job task_<id>_<batch_id>
  mon,          \* the monitor and the BatchExecution object of its manager:
                \* [on, status, rq_job_ids, started_at]
  batchResp     \* what the step just taken did to the batch:
                \* [op, action, seen, code, status, edges]

batchVars == <<batchStore, job, mon, batchResp>>

\* task_ids of the batch
BatchTasks == Tasks

NoMonitor == [on |-> FALSE, status |-> "PENDING", rq_job_ids |-> {},
              started_at |-> FALSE]
\* result: the operation returned True; completed_at: it set completed_at;
\* triggered: the roles for which it started an aggregation
NoBatchResp == [op |-> "none", action |-> "-", seen |-> "-", code |-> 0,
                status |-> "-", edges |-> {}, result |-> FALSE,
                completed_at |-> FALSE, triggered |-> {}]

\* the status changes along a sequence of successive statuses of one object
Edges(seq) == {e \in {<<seq[i], seq[i + 1]>> : i \in 1..(Len(seq) - 1)} :
                 e[1] # e[2]}

BatchAnswer(a, seen, code, seq) ==
  [op |-> "action", action |-> a, seen |-> seen, code |-> code,
   status |-> seq[Len(seq)], edges |-> Edges(seq), result |-> code = 200,
   completed_at |-> FALSE, triggered |-> {}]

\* BatchExecution.is_finished
is_finished(s) == s \in {"COMPLETED", "FAILED", "CANCELLED"}

\* BatchExecution.get_active_tasks after the counts of a refresh
get_active_tasks(ts) == Cardinality({t \in BatchTasks : ts[t] \in {"Q", "R"}})

\* variant: a refresh that completes a batch whatever its status
RefreshAnyStatus(s, ts) ==
  IF get_active_tasks(ts) = 0 THEN "COMPLETED" ELSE s

\* _refresh_batch_statistics: the status after the refresh
refresh_batch_statistics(s, ts) ==
  IF get_active_tasks(ts) = 0 /\ s = "RUNNING" THEN "COMPLETED" ELSE s

\* _load_batch_from_db: the object rebuilt from the persisted description (no
\* rq_job_ids, no started_at), refreshed before it is returned
load_batch_from_db ==
  [status |-> refresh_batch_statistics(batchStore, task_state),
   rq_job_ids |-> {}, started_at |-> FALSE]

\* dispatch_tasks: every task of ts is enqueued (ok), or the first k of them
\* are and the dispatch fails, its clean-up cancelling the jobs it created
Prefix(ts, k) == {t \in ts : Cardinality({u \in ts : u < t}) < k}
dispatch_tasks(ts, ok, k) ==
  [t \in Tasks |-> IF ok /\ t \in ts THEN "queued"
                   ELSE IF ~ok /\ t \in Prefix(ts, k) THEN "canceled"
                   ELSE job[t]]

\* start_batch called by batch_action, then the statistics of the answer
start_batch(b, ok, k) ==
  IF b.status # "PENDING"
    THEN \* ValueError, which batch_action turns into a 500
         /\ batchStore' = b.status
         /\ batchResp' = BatchAnswer("start", b.status, 500, <<batchStore, b.status>>)
         /\ UNCHANGED <<job, mon, task_state>>
    ELSE /\ job' = dispatch_tasks(BatchTasks, ok, k)
         /\ UNCHANGED task_state
         /\ IF ok
              THEN LET s == refresh_batch_statistics("RUNNING", task_state) IN
                   /\ batchStore' = s
                   /\ mon' = [on |-> TRUE, status |-> s,
                              rq_job_ids |-> BatchTasks, started_at |-> TRUE]
                   /\ batchResp' = BatchAnswer("start", b.status, 200,
                                     <<batchStore, b.status, "RUNNING", s>>)
              ELSE /\ batchStore' = "FAILED"
                   /\ UNCHANGED mon
                   /\ batchResp' = BatchAnswer("start", b.status, 500,
                                     <<batchStore, b.status, "RUNNING", "FAILED">>)

\* pause_batch called by batch_action
pause_batch(b) ==
  IF b.status # "RUNNING"
    THEN /\ batchStore' = b.status
         /\ batchResp' = BatchAnswer("pause", b.status, 400, <<batchStore, b.status>>)
         /\ UNCHANGED <<job, mon, task_state>>
    ELSE LET paused == {t \in b.rq_job_ids : job[t] = "queued"} IN
         /\ job' = [t \in Tasks |-> IF t \in paused THEN "canceled" ELSE job[t]]
         /\ batchStore' = "PAUSED"
         /\ batchResp' = BatchAnswer("pause", b.status,
                                     IF paused # {} THEN 200 ELSE 400,
                                     <<batchStore, b.status, "PAUSED">>)
         /\ UNCHANGED <<mon, task_state>>

\* _get_pending_tasks
get_pending_tasks == {t \in BatchTasks : task_state[t] = "P"}

\* resume_batch called by batch_action, then the statistics of the answer
resume_batch(b, ok, k) ==
  IF b.status # "PAUSED"
    THEN /\ batchStore' = b.status
         /\ batchResp' = BatchAnswer("resume", b.status, 400, <<batchStore, b.status>>)
         /\ UNCHANGED <<job, mon, task_state>>
    ELSE /\ UNCHANGED <<mon, task_state>>
         /\ IF get_pending_tasks = {}
              THEN /\ batchStore' = "COMPLETED"
                   /\ batchResp' = [BatchAnswer("resume", b.status, 200,
                                       <<batchStore, b.status, "COMPLETED">>)
                                      EXCEPT !.completed_at = TRUE]
                   /\ UNCHANGED job
              ELSE /\ job' = dispatch_tasks(get_pending_tasks, ok, k)
                   /\ IF ok
                        THEN LET s == refresh_batch_statistics("RUNNING", task_state) IN
                             /\ batchStore' = s
                             /\ batchResp' = BatchAnswer("resume", b.status, 200,
                                               <<batchStore, b.status, "RUNNING", s>>)
                        ELSE \* RuntimeError of the dispatcher: a 500
                             /\ batchStore' = b.status
                             /\ batchResp' = BatchAnswer("resume", b.status, 500,
                                               <<batchStore, b.status>>)

\* variant: an UPDATE that spares the tasks that have ended
UpdateUnfinishedTasks(ts, status) ==
  [t \in Tasks |-> IF t \in BatchTasks /\ ts[t] \notin {"C", "F"}
                     THEN status ELSE ts[t]]

\* _update_batch_tasks_status: one UPDATE over all task_ids of the batch
update_batch_tasks_status(ts, status) ==
  [t \in Tasks |-> IF t \in BatchTasks THEN status ELSE ts[t]]

\* cancel_batch called by batch_action, then the statistics of the answer
cancel_batch(b) ==
  IF is_finished(b.status)
    THEN /\ batchStore' = b.status
         /\ batchResp' = BatchAnswer("cancel", b.status, 400, <<batchStore, b.status>>)
         /\ UNCHANGED <<job, mon, task_state>>
    ELSE /\ job' = [t \in Tasks |->
                      IF t \in b.rq_job_ids /\ job[t] # "finished"
                        THEN "canceled" ELSE job[t]]
         /\ task_state' = update_batch_tasks_status(task_state, "X")
         /\ batchStore' = "CANCELLED"
         /\ batchResp' = [BatchAnswer("cancel", b.status, 200,
                             <<batchStore, b.status, "CANCELLED">>)
                            EXCEPT !.completed_at = TRUE]
         /\ UNCHANGED mon

\* cancel_batch called with a batch id under which nothing is stored: get_batch
\* gives None and the call returns False
cancel_unknown_batch ==
  /\ batchResp' = [NoBatchResp EXCEPT !.op = "call", !.action = "cancel"]
  /\ UNCHANGED <<batchStore, job, mon, dbVars>>

\* POST /batches/{id}/actions: get_batch on a new manager, the action, the
\* statistics, the answer
batch_action(a, ok, k) ==
  /\ LET b == load_batch_from_db IN
       CASE a = "start" -> start_batch(b, ok, k)
         [] a = "pause" -> pause_batch(b)
         [] a = "resume" -> resume_batch(b, ok, k)
         [] a = "cancel" -> cancel_batch(b)
  /\ UNCHANGED role_item_prompt

\* GET /batches/{id}: get_batch_statistics on a new manager
get_batch_status ==
  /\ LET b == load_batch_from_db IN
       /\ batchStore' = b.status
       /\ batchResp' = [op |-> "status", action |-> "-", seen |-> batchStore,
                        code |-> 200, status |-> b.status,
                        edges |-> Edges(<<batchStore, b.status>>),
                        result |-> FALSE, completed_at |-> FALSE,
                        triggered |-> {}]
  /\ UNCHANGED <<job, mon, dbVars>>

\* _handle_batch_timeout
handle_batch_timeout(s) == "FAILED"

\* _is_role_tasks_completed: no task of the role in P, Q or R
is_role_tasks_completed(r) ==
  Cardinality({t \in Tasks : task_role[t] = r /\ task_state[t] \in {"P", "Q", "R"}}) = 0

\* _check_and_trigger_aggregation: the roles of the batch for which
\* aggregate_role_results is started
check_and_trigger_aggregation ==
  {r \in {task_role[t] : t \in BatchTasks} : is_role_tasks_completed(r)}

\* one iteration of _monitor_batch_execution; late: _is_batch_timeout finds the
\* batch older than timeout_minutes
monitor_batch_execution(late) ==
  /\ mon.on
  /\ IF is_finished(mon.status)
       THEN /\ mon' = [mon EXCEPT !.on = FALSE]
            /\ batchResp' = [NoBatchResp EXCEPT !.op = "monitor"]
            /\ UNCHANGED batchStore
       ELSE LET s == refresh_batch_statistics(mon.status, task_state)
                f == IF late /\ mon.started_at THEN handle_batch_timeout(s) ELSE s
            IN /\ batchStore' = f
               /\ mon' = [mon EXCEPT !.status = f, !.on = ~(late /\ mon.started_at)]
               /\ batchResp' = [NoBatchResp EXCEPT !.op = "monitor",
                                  !.seen = mon.status, !.status = f,
                                  !.edges = Edges(<<mon.status, s, f>>),
                                  !.triggered = check_and_trigger_aggregation]
  /\ UNCHANGED <<job, dbVars>>

\* a queue worker takes the job: execute_ai_task marks the task R
WorkerPickup(t) ==
  /\ job[t] = "queued"
  /\ job' = [job EXCEPT ![t] = "started"]
  /\ task_state' = [task_state EXCEPT ![t] = "R"]
  /\ batchResp' = [NoBatchResp EXCEPT !.op = "worker"]
  /\ UNCHANGED <<batchStore, mon, role_item_prompt>>

\* execute_ai_task ends: C with the generated prompt, or F
WorkerFinish(t, ok) ==
  /\ job[t] = "started"
  /\ job' = [job EXCEPT ![t] = "finished"]
  /\ IF ok
       THEN /\ task_state' = [task_state EXCEPT ![t] = "C"]
            /\ role_item_prompt' = [role_item_prompt EXCEPT ![t] = ResultPrompt]
       ELSE /\ task_state' = [task_state EXCEPT ![t] = "F"]
            /\ UNCHANGED role_item_prompt
  /\ batchResp' = [NoBatchResp EXCEPT !.op = "worker"]
  /\ UNCHANGED <<batchStore, mon>>

\* ------------------------------------------------------------ wall clock
Callers == 1..NumCallers

VARIABLES
  clock         \* time.time(), in seconds

\* the steps by which time is seen to advance
Deltas == {20, 21}

\* ------------------------------------------------------------ RateLimiter
VARIABLES
  requests,     \* RateLimiter.requests: the list of recorded timestamps
  sleeper,      \* the caller sleeping inside acquire with the lock held:
                \* [c, wake, oldest], c = 0 when the lock is free
  recent,       \* the timestamps of the acquisitions completed during the
                \* trailing 60 seconds
  rlLast        \* the acquisition the step just taken completed:
                \* [done, waited, oldest]

rlVars == <<requests, sleeper, recent, rlLast>>

NoSleeper == [c |-> 0, wake |-> 0, oldest |-> 0]
NoAcquire == [done |-> FALSE, waited |-> FALSE, oldest |-> 0]

\* the sliding window of the limiter, in seconds
Window == 60

\* the acquisitions of h that lie in the trailing 60 seconds at time t
Trailing(h, t) == SelectSeq(h, LAMBDA r : t - r < 60)

MinOf(q) == CHOOSE m \in {q[i] : i \in 1..Len(q)} :
              \A i \in 1..Len(q) : m <= q[i]

\* variant: a limiter that forgets its timestamps after half the window
PruneHalfWindow(q, now) == SelectSeq(q, LAMBDA r : now - r < 30)

\* acquire: the timestamps kept by the clean-up
Prune(q, now) == SelectSeq(q, LAMBDA r : now - r < Window)

\* acquire: wait_time
wait_time(q, now) == Window - (now - MinOf(q)) + 1

\* acquire, from taking the lock to the append, or to the sleep when the list
\* is full
acquire(c) ==
  /\ sleeper.c = 0
  /\ LET now == clock
         kept == Prune(requests, now)
     IN IF Len(kept) >= max_requests
          THEN /\ requests' = kept
               /\ sleeper' = [c |-> c, wake |-> now + wait_time(kept, now),
                              oldest |-> MinOf(kept)]
               /\ rlLast' = NoAcquire
               /\ UNCHANGED recent
          ELSE /\ requests' = Append(kept, now)
               /\ recent' = Append(Trailing(recent, now), now)
               /\ rlLast' = [done |-> TRUE, waited |-> FALSE, oldest |-> 0]
               /\ UNCHANGED sleeper
  /\ UNCHANGED clock

\* acquire, after asyncio.sleep(wait_time): second clean-up, append, the lock
\* is released
acquire_wake ==
  /\ sleeper.c # 0
  /\ clock >= sleeper.wake
  /\ LET now == clock IN
       /\ requests' = Append(Prune(requests, now), now)
       /\ recent' = Append(Trailing(recent, now), now)
  /\ rlLast' = [done |-> TRUE, waited |-> TRUE, oldest |-> sleeper.oldest]
  /\ sleeper' = NoSleeper
  /\ UNCHANGED clock

\* --------------------------------------------------------- CircuitBreaker
VARIABLES
  cb,           \* CircuitBreaker: [state, failure_count, last_failure_time]
  callpc,       \* [Callers -> {"idle", "calling"}]: call_generate_api
  consec,       \* failures recorded since the last recorded success
  openedAt,     \* the time at which the breaker last went to OPEN
  callRet       \* what the step just taken did in call_generate_api:
                \* [op, success, error_code, raised, called, ops, before]

cbVars == <<cb, callpc, consec, openedAt, callRet>>

NoCall == [op |-> "none", success |-> FALSE, error_code |-> "-",
           raised |-> FALSE, called |-> FALSE, ops |-> <<>>, before |-> "-"]

\* CircuitBreaker.__init__: timeout
timeout == 60

\* variant: a breaker that opens one failure late
RecordFailureLate(b, now) ==
  [state |-> IF b.failure_count + 1 > failure_threshold THEN "OPEN" ELSE b.state,
   failure_count |-> b.failure_count + 1,
   last_failure_time |-> now]

\* CircuitBreaker.record_failure
record_failure(b, now) ==
  [state |-> IF b.failure_count + 1 >= failure_threshold THEN "OPEN" ELSE b.state,
   failure_count |-> b.failure_count + 1,
   last_failure_time |-> now]

\* CircuitBreaker.record_success
record_success(b) == [b EXCEPT !.failure_count = 0, !.state = "CLOSED"]

\* CircuitBreaker.is_open: the answer, and the breaker afterwards
is_open(b, now) ==
  IF b.state = "OPEN"
    THEN IF now - b.last_failure_time > timeout
           THEN [open |-> FALSE, cb |-> [b EXCEPT !.state = "HALF_OPEN"]]
           ELSE [open |-> TRUE, cb |-> b]
    ELSE [open |-> FALSE, cb |-> b]

\* what _make_api_call does: an envelope, or an exception
Outcomes == {"ok", "timeout", "network", "http", "unsupported", "exception"}

\* the envelope call_generate_api returns for each outcome
Envelope(o) ==
  CASE o = "ok" -> [success |-> TRUE, error_code |-> "-", raised |-> FALSE]
    [] o = "timeout" -> [success |-> FALSE, error_code |-> "TIMEOUT", raised |-> FALSE]
    [] o = "network" -> [success |-> FALSE, error_code |-> "NETWORK_ERROR", raised |-> FALSE]
    [] o = "http" -> [success |-> FALSE, error_code |-> "HTTP_STATUS", raised |-> FALSE]
    [] o = "unsupported" ->
         [success |-> FALSE, error_code |-> "UNSUPPORTED_PROVIDER", raised |-> FALSE]
    [] o = "exception" ->
         [success |-> FALSE, error_code |-> "API_EXCEPTION", raised |-> FALSE]

\* variant: a gateway whose except block does not tell the breaker
BreakerOpsNoExcept(o) ==
  IF o = "ok" THEN <<"record_success">>
  ELSE IF o = "exception" THEN <<>> ELSE <<"record_failure">>

\* the breaker operations call_generate_api performs after the provider call
BreakerOps(o) ==
  IF o = "ok" THEN <<"record_success">> ELSE <<"record_failure">>

RECURSIVE ApplyOps(_, _, _)
ApplyOps(ops, b, now) ==
  IF ops = <<>> THEN b
  ELSE ApplyOps(Tail(ops),
                IF Head(ops) = "record_success" THEN record_success(b)
                ELSE record_failure(b, now),
                now)

RECURSIVE CountOps(_, _)
CountOps(ops, n) ==
  IF ops = <<>> THEN n
  ELSE CountOps(Tail(ops), IF Head(ops) = "record_success" THEN 0 ELSE n + 1)

\* call_generate_api up to the rate limiter: a cache hit returns the cached
\* answer; an open breaker returns CIRCUIT_BREAKER_OPEN; otherwise the call
\* goes on to the provider
call_begin(c, hit) ==
  /\ callpc[c] = "idle"
  /\ IF hit
       THEN /\ callRet' = [NoCall EXCEPT !.op = "cached", !.success = TRUE,
                                         !.before = cb.state]
            /\ UNCHANGED <<cb, callpc>>
       ELSE LET r == is_open(cb, clock) IN
            /\ cb' = r.cb
            /\ IF r.open
                 THEN /\ callRet' = [NoCall EXCEPT !.op = "rejected",
                                       !.error_code = "CIRCUIT_BREAKER_OPEN",
                                       !.before = cb.state]
                      /\ UNCHANGED callpc
                 ELSE /\ callRet' = [NoCall EXCEPT !.op = "admitted",
                                       !.before = cb.state]
                      /\ callpc' = [callpc EXCEPT ![c] = "calling"]
  /\ UNCHANGED <<consec, openedAt, clock>>

\* call_generate_api from the provider's answer to the return
call_end(c, o) ==
  /\ callpc[c] = "calling"
  /\ cb' = ApplyOps(BreakerOps(o), cb, clock)
  /\ consec' = CountOps(BreakerOps(o), consec)
  /\ openedAt' = IF cb.state # "OPEN" /\ cb'.state = "OPEN" THEN clock ELSE openedAt
  /\ callpc' = [callpc EXCEPT ![c] = "idle"]
  /\ callRet' = [op |-> "returned", success |-> Envelope(o).success,
                 error_code |-> Envelope(o).error_code,
                 raised |-> Envelope(o).raised, called |-> TRUE,
                 ops |-> BreakerOps(o), before |-> cb.state]
  /\ UNCHANGED clock

\* time passes
Advance(d) ==
  /\ clock + d <= MaxClock
  /\ clock' = clock + d
  /\ recent' = Trailing(recent, clock + d)
  /\ rlLast' = NoAcquire
  /\ callRet' = NoCall
  /\ UNCHANGED <<requests, sleeper, cb, callpc, consec, openedAt>>

\* -------------------------------------------------------- ResultAggregator
\* The role_prompt rows of one role and the aggregations of that role, run one
\* after the other; the tasks of the role are the rows of Tasks.
VARIABLES
  role_prompt,  \* the rows of the role in insertion order: [version, is_active]
  agg,          \* the aggregation in flight: [pc, latest, new_version]
  written,      \* the rows written by the aggregations so far:
                \* [version, maxBefore, none]
  aggLast,      \* TRUE when the step just taken ended an aggregation that
                \* wrote a row
  aggRet        \* the AggregationResult the step just taken returned, and what
                \* the run had read: [result, error, pending, short, content]

aggVars == <<role_prompt, agg, written, aggLast, aggRet>>

IdleAgg == [pc |-> "idle", latest |-> {}, new_version |-> 0, pending |-> 0]

\* ---- content, as far as the quality gate looks at it: its length, whether
\* it holds a sentence separator (one of the four of _split_sentences), and
\* whether it holds one of , ! ?
Lengths == {0, 20, 49, 50, 99, 100, 2001}
Contents == [len : Lengths, seps : BOOLEAN, punct : BOOLEAN]
NoContent == [len |-> 0, seps |-> FALSE, punct |-> FALSE]

NoAggRet == [result |-> "none", error |-> "-", pending |-> 0,
             short |-> FALSE, content |-> NoContent]

\* remove_duplicates: the sentences are split at the separators, stripped,
\* deduplicated and joined with blanks: the result holds no separator and is
\* not longer than the input.  ShortRaw(c) says whether the input was at most
\* 20 characters long, for the inputs that can give the result c
ShortRaw(c) ==
  IF c.seps THEN {} ELSE IF c.len <= 20 THEN BOOLEAN ELSE {FALSE}

\* ---- Python floats in [0, 1]: IEEE 754 doubles, written as a count of units
\* of 2^-54 in two limbs of 27 bits
Limb == 2^27
Dbl(hi, lo) == [hi |-> hi, lo |-> lo]
F_1_0 == Dbl(134217728, 0)
F_0_5 == Dbl(67108864, 0)
F_0_3 == Dbl(40265318, 53687091)
F_0_2 == Dbl(26843545, 80530637)
F_0_0 == Dbl(0, 0)

FLess(a, b) == a.hi < b.hi \/ (a.hi = b.hi /\ a.lo < b.lo)

\* the exact difference a - b, for a >= b
ExactSub(a, b) ==
  IF a.lo >= b.lo THEN Dbl(a.hi - b.hi, a.lo - b.lo)
  ELSE Dbl(a.hi - b.hi - 1, a.lo + Limb - b.lo)

\* variant: arithmetic without rounding
RoundExact(x) == x

\* round to nearest, ties to even: a value in [0.5, 1) has 53 significant
\* bits, so it is a multiple of two units; smaller values are kept
Round(x) ==
  IF x.hi >= Limb \div 2 /\ x.hi < Limb /\ x.lo % 2 = 1
    THEN IF x.lo % 4 = 1 THEN Dbl(x.hi, x.lo - 1)
         ELSE IF x.lo + 1 = Limb THEN Dbl(x.hi + 1, 0) ELSE Dbl(x.hi, x.lo + 1)
    ELSE x

\* float subtraction
FSub(a, b) == Round(ExactSub(a, b))

\* _split_sentences: the number of sentences of a content without separators
sentence_count(c) == IF c.len = 0 THEN 0 ELSE 1

\* _has_complete_structure
has_complete_structure(c) == c.len >= 50 /\ (c.seps \/ c.punct)

\* validate_quality of a post-processed content: with at most one sentence the
\* repetition rate is 1 - 1/1 = 0.0 and 0.0 * 0.3 = 0.0 is subtracted
validate_quality(c) ==
  LET q1 == IF c.len < 100 THEN FSub(F_1_0, F_0_3)
            ELSE IF c.len > 2000 THEN FSub(F_1_0, F_0_2) ELSE F_1_0
      q2 == IF sentence_count(c) > 0 THEN FSub(q1, F_0_0) ELSE q1
      q3 == IF ~has_complete_structure(c) THEN FSub(q2, F_0_2) ELSE q2
  IN IF FLess(q3, F_0_0) THEN F_0_0 ELSE q3

\* _check_role_completion: pending_count
pending_count == Cardinality({t \in Tasks : task_state[t] \in {"P", "Q", "R"}})

Versions(rows) == {rows[i].version : i \in 1..Len(rows)}
MaxVersion(rows) == CHOOSE m \in Versions(rows) : \A v \in Versions(rows) : v <= m

\* variant: a completion check that does not count running tasks
IsCompleteIgnoringR == \A t \in Tasks : task_state[t] \notin {"P", "Q"}

\* _check_role_completion: no task of the role in P, Q or R
is_complete == \A t \in Tasks : task_state[t] \notin {"P", "Q", "R"}

\* _get_completed_tasks: the C tasks of the role whose role_item_prompt is not
\* NULL; the column defaults to {} and no route writes NULL to it
completed_tasks == {t \in Tasks : task_state[t] = "C"}

\* _get_latest_version: MAX(version), None ({}) when the role has no row
get_latest_version(rows) == IF rows = <<>> THEN {} ELSE {MaxVersion(rows)}

\* variant: a version that repeats the latest one
NewVersionSame(latest) ==
  IF latest = {} \/ latest = {0} THEN 0 ELSE CHOOSE v \in latest : TRUE

\* _create_role_prompt: (latest_version or 0) + 1
new_version(latest) ==
  (IF latest = {} \/ latest = {0} THEN 0 ELSE CHOOSE v \in latest : TRUE) + 1

\* _deactivate_old_versions: every row of the role with another version
deactivate_old_versions(rows, current_version) ==
  [i \in 1..Len(rows) |->
     IF rows[i].version # current_version
       THEN [rows[i] EXCEPT !.is_active = "N"] ELSE rows[i]]

\* aggregate_role_results, steps 1 to 5: the run goes on to write only for a
\* complete role with completed tasks whose content passes the quality gate
AggStart(short, c) ==
  /\ agg.pc = "idle"
  /\ Len(written) < MaxAggs
  /\ is_complete /\ completed_tasks # {}
  /\ ~FLess(validate_quality(c), F_0_5)
  /\ agg' = [IdleAgg EXCEPT !.pc = "create", !.pending = pending_count]
  /\ aggLast' = FALSE
  /\ aggRet' = [NoAggRet EXCEPT !.short = short]
  /\ UNCHANGED <<role_prompt, written, dbVars>>

\* aggregate_role_results returns an error result without writing
AggRefuse ==
  /\ agg.pc = "idle"
  /\ \/ /\ ~is_complete
        /\ aggRet' = [NoAggRet EXCEPT !.result = "error", !.error = "incomplete",
                                      !.pending = pending_count]
     \/ /\ is_complete /\ completed_tasks = {}
        /\ aggRet' = [NoAggRet EXCEPT !.result = "error", !.error = "no_tasks"]
     \/ /\ is_complete /\ completed_tasks # {}
        /\ \E c \in Contents : \E short \in ShortRaw(c) :
             /\ FLess(validate_quality(c), F_0_5)
             /\ aggRet' = [NoAggRet EXCEPT !.result = "error", !.error = "quality",
                                           !.short = short, !.content = c]
  /\ aggLast' = FALSE
  /\ UNCHANGED <<role_prompt, agg, written, dbVars>>

\* _create_role_prompt: the latest version is read
AggReadLatest ==
  /\ agg.pc = "create"
  /\ agg' = [agg EXCEPT !.pc = "insert",
                        !.latest = get_latest_version(role_prompt),
                        !.new_version = new_version(get_latest_version(role_prompt))]
  /\ aggLast' = FALSE
  /\ aggRet' = NoAggRet
  /\ UNCHANGED <<role_prompt, written, dbVars>>

\* _create_role_prompt: the new row is added and committed
AggInsert ==
  /\ agg.pc = "insert"
  /\ role_prompt' = Append(role_prompt,
                           [version |-> agg.new_version, is_active |-> "Y"])
  /\ written' = Append(written,
                  [version |-> agg.new_version,
                   none |-> role_prompt = <<>>,
                   pending |-> agg.pending,
                   maxBefore |-> IF role_prompt = <<>> THEN 0
                                 ELSE MaxVersion(role_prompt)])
  /\ agg' = [agg EXCEPT !.pc = "deactivate"]
  /\ aggLast' = FALSE
  /\ aggRet' = NoAggRet
  /\ UNCHANGED dbVars

\* _create_role_prompt: the older rows are deactivated; the run returns
AggDeactivate ==
  /\ agg.pc = "deactivate"
  /\ role_prompt' = deactivate_old_versions(role_prompt, agg.new_version)
  /\ agg' = IdleAgg
  /\ aggLast' = TRUE
  /\ aggRet' = [NoAggRet EXCEPT !.result = "success"]
  /\ UNCHANGED <<written, dbVars>>

\* a task of the role ends (a worker or an executor thread commits C or F)
TaskEnds(t, s) ==
  /\ agg.pc = "idle"
  /\ task_state[t] \in {"P", "Q", "R", "W"}
  /\ task_state' = [task_state EXCEPT ![t] = s]
  /\ role_item_prompt' = [role_item_prompt EXCEPT
                            ![t] = IF s = "C" THEN ResultPrompt ELSE ErrorPrompt]
  /\ aggLast' = FALSE
  /\ aggRet' = NoAggRet
  /\ UNCHANGED <<role_prompt, agg, written>>

\* a worker takes a task of the role and marks it R, at any moment
TaskBegins(t) ==
  /\ task_state[t] # "R"
  /\ task_state' = [task_state EXCEPT ![t] = "R"]
  /\ aggLast' = FALSE
  /\ aggRet' = NoAggRet
  /\ UNCHANGED <<role_item_prompt, role_prompt, agg, written>>

\* ------------------------------------------------- legacy synchronizer
\* sync_batch_to_role_prompts.  A task name is the sequence of its segments
\* between the "-" signs; a segment is a batch number or another text.
VARIABLES
  task_name,    \* [Tasks -> TaskNames]
  sync,         \* the request in progress and its session: [pc, todo, rows,
                \* synced, broken, results, raised, failed]
  syncResp      \* the answer the step just taken gave: [code, results] and
                \* the batch numbers whose iteration raised, and those among
                \* them where the error arose

syncVars == <<task_name, task_role, sync, syncResp>>

Roles == {"r1", "r2"}
BatchNumbers == {"1", "2"}
Segments == {"x"} \cup BatchNumbers
TaskNames == {<<"x", s2, s3, "x">> : s2 \in Segments, s3 \in Segments}

NoResults == [b \in BatchNumbers |-> "-"]
IdleSync == [pc |-> "idle", todo |-> <<>>, rows |-> <<>>, synced |-> {},
             broken |-> FALSE, results |-> NoResults, raised |-> {},
             failed |-> {}]
NoSyncResp == [code |-> 0, results |-> NoResults, raised |-> {}, failed |-> {}]

\* int(batch_number)
IntOf(b) == IF b = "1" THEN 1 ELSE 2

\* _extract_batch_number: the second segment when it is a number, else ""
extract_batch_number(name) ==
  IF Len(name) >= 3 /\ name[2] \in BatchNumbers THEN name[2] ELSE ""

\* task_name LIKE '%-<batch_number>-%': the number is a segment that is neither
\* the first nor the last
LikeBatch(name, b) == \E i \in 2..(Len(name) - 1) : name[i] = b

\* the task_state a query of this session gives: the states set in the session
\* are flushed before each query
SessionState(t) == IF t \in sync.synced THEN "S" ELSE task_state[t]

\* the tasks in state C when the request starts
completed_at_start == {t \in Tasks : task_state[t] = "C"}

\* _extract_and_group_by_batch: the completed tasks under each batch number
batch_group(b) == {t \in completed_at_start : extract_batch_number(task_name[t]) = b}

\* variant: a validation that looks at the completed tasks only
ValidateCompletedOnly(b) ==
  LET all == {t \in Tasks : LikeBatch(task_name[t], b) /\ SessionState(t) = "C"}
      done == {t \in all : SessionState(t) = "C"}
  IN [is_complete |-> Cardinality(all) = Cardinality(done) /\ Cardinality(all) > 0,
      total_tasks |-> Cardinality(all), completed_tasks |-> Cardinality(done)]

\* _validate_batch_completeness
validate_batch_completeness(b) ==
  LET all == {t \in Tasks : LikeBatch(task_name[t], b)}
      done == {t \in all : SessionState(t) = "C"}
  IN [is_complete |-> Cardinality(all) = Cardinality(done) /\ Cardinality(all) > 0,
      total_tasks |-> Cardinality(all), completed_tasks |-> Cardinality(done)]

\* _merge_content_by_role: the roles of the tasks of the group that have a
\* role_item_prompt
merge_content_by_role(b) ==
  {task_role[t] : t \in {u \in batch_group(b) : role_item_prompt[u] # EmptyPrompt}}

\* the rows this session sees: the committed ones and the ones it has added
SessionRows == role_prompt \o sync.rows

RECURSIVE SeqOfSet(_)
SeqOfSet(S) ==
  IF S = {} THEN <<>>
  ELSE LET x == CHOOSE y \in S : TRUE IN <<x>> \o SeqOfSet(S \ {x})

\* variant: a row for every role, without the lookup of an existing row
CreateWithoutLookup(roles, b) ==
  LET order == SeqOfSet(roles)
  IN [i \in 1..Len(order) |->
        [role |-> order[i], version |-> IntOf(b), is_active |-> "Y"]]

\* _create_role_prompts: one row per role that has no row of this version yet
create_role_prompts(roles, b) ==
  LET fresh == {r \in roles :
                  ~\E i \in 1..Len(SessionRows) :
                     /\ SessionRows[i].role = r
                     /\ SessionRows[i].version = IntOf(b)}
      order == SeqOfSet(fresh)
  IN [i \in 1..Len(order) |->
        [role |-> order[i], version |-> IntOf(b), is_active |-> "Y"]]

Perms(S) == {q \in [1..Cardinality(S) -> S] : \A i, j \in 1..Cardinality(S) :
               i # j => q[i] # q[j]}

\* the request up to the loop: 404 without completed tasks, 400 without a batch
\* number; the batch numbers are taken in the order of the query's rows
SyncBegin(order) ==
  /\ sync.pc = "idle"
  /\ LET found == {b \in BatchNumbers : batch_group(b) # {}} IN
       IF completed_at_start = {}
         THEN /\ syncResp' = [NoSyncResp EXCEPT !.code = 404]
              /\ UNCHANGED sync
         ELSE IF found = {}
           THEN /\ syncResp' = [NoSyncResp EXCEPT !.code = 400]
                /\ UNCHANGED sync
           ELSE /\ order \in Perms(found)
                /\ sync' = [IdleSync EXCEPT !.pc = "loop", !.todo = order]
                /\ syncResp' = NoSyncResp
  /\ UNCHANGED <<dbVars, role_prompt, task_name, task_role>>

SyncFailures == {"none", "python", "database"}

\* one iteration of the loop.  A statement on a session whose transaction has
\* failed raises; a database error makes the transaction fail; an error
\* raised by the Python code (int(batch_number)) leaves the session as it was
SyncBatchStep(fail) ==
  /\ sync.pc = "loop" /\ sync.todo # <<>>
  /\ LET b == Head(sync.todo)
         v == validate_batch_completeness(b)
         roles == merge_content_by_role(b)
         created == create_role_prompts(roles, b)
         next == [sync EXCEPT !.todo = Tail(sync.todo)]
         err == [next EXCEPT !.results[b] = "error", !.raised = @ \cup {b}]
         own == [err EXCEPT !.failed = @ \cup {b}]
     IN sync' =
          IF sync.broken THEN err
          ELSE IF fail = "database" THEN [own EXCEPT !.broken = TRUE]
          ELSE IF ~v.is_complete
            THEN [next EXCEPT !.results[b] = "skipped:incomplete"]
          ELSE IF roles = {} THEN [next EXCEPT !.results[b] = "skipped:no_data"]
          ELSE IF fail = "python" THEN own
          ELSE IF created = <<>> THEN [next EXCEPT !.results[b] = "error"]
          ELSE [next EXCEPT !.results[b] = "success",
                            !.rows = @ \o created,
                            !.synced = @ \cup batch_group(b)]
  /\ syncResp' = NoSyncResp
  /\ UNCHANGED <<dbVars, role_prompt, task_name, task_role>>

\* session.commit() and the answer.  On a failed transaction the commit
\* writes nothing; it raises when the session has changes to flush
SyncCommit ==
  /\ sync.pc = "loop" /\ sync.todo = <<>>
  /\ IF sync.broken
       THEN /\ UNCHANGED <<task_state, role_prompt>>
            /\ syncResp' = IF sync.rows # <<>> \/ sync.synced # {}
                             THEN [NoSyncResp EXCEPT !.code = 500,
                                                     !.raised = sync.raised,
                                                     !.failed = sync.failed]
                             ELSE [code |-> 200, results |-> sync.results,
                                   raised |-> sync.raised,
                                   failed |-> sync.failed]
       ELSE /\ task_state' = [t \in Tasks |-> SessionState(t)]
            /\ role_prompt' = SessionRows
            /\ syncResp' = [code |-> 200, results |-> sync.results,
                            raised |-> sync.raised, failed |-> sync.failed]
  /\ sync' = IdleSync
  /\ UNCHANGED <<role_item_prompt, task_name, task_role>>

\* ------------------------------------------------------ the API router
\* api_router and the access control of its handlers.
VARIABLES
  environment,  \* settings.ENVIRONMENT
  apiResp,      \* the request the step just taken served:
                \* [handler, caller, code, ran]
  performed,    \* the <<handler, caller>> pairs whose handler body has run
  nreq          \* the number of requests served

apiVars == <<environment, apiResp, performed, nreq>>

Environments == {"local", "staging", "production"}
ApiCallers == {"anonymous", "user", "superuser"}

BatchHandlers ==
  {"create_batch", "batch_action", "get_batch_status", "list_active_batches",
   "delete_batch", "get_queue_info", "clear_failed_jobs",
   "get_execution_statistics", "cleanup_expired_batches", "get_job_status",
   "cancel_job"}
PrivateHandlers == {"private.create_user"}
SyncHandlers == {"sync_batch_to_role_prompts"}
Handlers == BatchHandlers \cup PrivateHandlers \cup SyncHandlers

RouterOf(h) ==
  IF h \in BatchHandlers THEN "batch_execution"
  ELSE IF h \in PrivateHandlers THEN "private" ELSE "sync_to_role_prompts"

\* api/main.py: the routers included, in order
IncludedRouters(env) ==
  <<"login", "users", "utils", "items", "private", "role_dirs", "roles",
    "role_templates", "role_template_items", "role_prompts",
    "task_creat_role_prompts", "batch_execution", "sync_to_role_prompts">>
  \o (IF env = "local" THEN <<"private">> ELSE <<>>)

Mounted(env, r) ==
  \E i \in 1..Len(IncludedRouters(env)) : IncludedRouters(env)[i] = r

\* the dependency each handler declares
DependencyOf(h) ==
  IF h \in BatchHandlers THEN "get_current_user"
  ELSE IF h \in SyncHandlers THEN "get_current_active_superuser"
  ELSE "none"

\* deps.get_current_user: Unauthorized without a credential of an active user
get_current_user(caller) == IF caller = "anonymous" THEN 401 ELSE 0

\* deps.get_current_active_superuser: Forbidden for a user who is not a
\* superuser
get_current_active_superuser(caller) ==
  IF get_current_user(caller) # 0 THEN get_current_user(caller)
  ELSE IF caller # "superuser" THEN 403 ELSE 0

NoApiResp == [handler |-> "-", caller |-> "-", code |-> 0, ran |-> FALSE]

\* one request: the route is looked up, the dependency is resolved, the body
\* of the handler runs
ApiRequest(h, caller) ==
  /\ nreq < MaxApiRequests
  /\ nreq' = nreq + 1
  /\ LET gate == IF DependencyOf(h) = "get_current_user"
                   THEN get_current_user(caller)
                 ELSE IF DependencyOf(h) = "get_current_active_superuser"
                   THEN get_current_active_superuser(caller)
                 ELSE 0
     IN IF ~Mounted(environment, RouterOf(h))
          THEN /\ apiResp' = [handler |-> h, caller |-> caller, code |-> 404,
                              ran |-> FALSE]
               /\ UNCHANGED performed
        ELSE IF gate # 0
          THEN /\ apiResp' = [handler |-> h, caller |-> caller, code |-> gate,
                              ran |-> FALSE]
               /\ UNCHANGED performed
        ELSE /\ apiResp' = [handler |-> h, caller |-> caller, code |-> 200,
                            ran |-> TRUE]
             /\ performed' = performed \cup {<<h, caller>>}
  /\ UNCHANGED environment

\* ------------------------------------------------------------------------
\* TaskDispatcher.dispatch_tasks (task_dispatcher.py)
\* ------------------------------------------------------------------------
VARIABLES
  dsp,             \* the running dispatch_tasks call: position, tasks, job_ids
  rq,              \* the RQ job of each task id
  task_status_key, \* the Redis key task_status:<id>
  dspRet           \* how the last call ended

dispVars == <<dsp, rq, task_status_key, dspRet>>

\* job_id = f"task_{task.id}_{batch_id}", for the one batch of the call
JobId(t) == <<"task", t, "batch">>
TaskOfJob(j) == j[2]

IdleDispatch == [pc |-> "idle", tasks |-> <<>>, i |-> 0, job_ids |-> <<>>,
                 c |-> 0, tried |-> <<>>]
NoDispatchRet == [kind |-> "none", tasks |-> <<>>, ids |-> <<>>, tried |-> <<>>]

\* the task lists a caller passes: rows of a query, each task once
TaskLists ==
  UNION {{q \in [1..n -> Tasks] : \A a, b \in 1..n : a # b => q[a] # q[b]}
           : n \in 0..NumTasks}

\* variant: a loop whose return statement sits inside the loop body
LoopDoneAfterFirst(d) == TRUE

\* the for loop over tasks has run its last iteration
LoopDone(d) == d.i = Len(d.tasks)

\* dispatch_tasks is called: [] for no tasks, otherwise the loop begins
DispatchCall(ts) ==
  /\ dsp.pc = "idle"
  /\ IF ts = <<>>
       THEN /\ dspRet' = [NoDispatchRet EXCEPT !.kind = "return"]
            /\ UNCHANGED dsp
       ELSE /\ dsp' = [IdleDispatch EXCEPT !.pc = "enqueue", !.tasks = ts, !.i = 1]
            /\ dspRet' = NoDispatchRet
  /\ UNCHANGED <<rq, task_status_key>>

\* one iteration up to job_ids.append: the job is created and its id kept, or
\* the import, _prepare_task_data or queue.enqueue raises
DispatchEnqueue(ok) ==
  /\ dsp.pc = "enqueue"
  /\ LET t == dsp.tasks[dsp.i] IN
     IF ok
       THEN /\ rq' = [rq EXCEPT ![t] = "queued"]
            /\ dsp' = [dsp EXCEPT !.pc = "status",
                                  !.job_ids = Append(@, JobId(t))]
       ELSE /\ dsp' = [dsp EXCEPT !.pc = "cleanup", !.c = 1]
            /\ UNCHANGED rq
  /\ UNCHANGED <<task_status_key, dspRet>>

\* the rest of the iteration: _update_task_status writes the Redis key; then
\* the next task, or return job_ids after the last; or the write raises
DispatchUpdateStatus(ok) ==
  /\ dsp.pc = "status"
  /\ LET t == dsp.tasks[dsp.i] IN
     IF ok
       THEN /\ task_status_key' = [task_status_key EXCEPT ![t] = "QUEUED"]
            /\ IF LoopDone(dsp)
                 THEN /\ dspRet' = [kind |-> "return", tasks |-> dsp.tasks,
                                    ids |-> dsp.job_ids, tried |-> <<>>]
                      /\ dsp' = IdleDispatch
                 ELSE /\ dsp' = [dsp EXCEPT !.pc = "enqueue", !.i = @ + 1]
                      /\ UNCHANGED dspRet
       ELSE /\ dsp' = [dsp EXCEPT !.pc = "cleanup", !.c = 1]
            /\ UNCHANGED <<task_status_key, dspRet>>
  /\ UNCHANGED rq

\* what one iteration of _cleanup_failed_dispatch meets: the job is cancelled,
\* get_job finds no job, or get_job or cancel raises and the error is ignored
CleanupOutcomes == {"cancel", "missing", "raise"}

\* _cleanup_failed_dispatch, one job id of job_ids
DispatchCleanup(o) ==
  /\ dsp.pc = "cleanup"
  /\ dsp.c <= Len(dsp.job_ids)
  /\ LET j == dsp.job_ids[dsp.c] IN
     /\ rq' = IF o = "cancel" THEN [rq EXCEPT ![TaskOfJob(j)] = "canceled"]
              ELSE rq
     /\ dsp' = [dsp EXCEPT !.c = @ + 1, !.tried = Append(@, j)]
  /\ UNCHANGED <<task_status_key, dspRet>>

\* the except block after the clean-up: raise RuntimeError
DispatchRaise ==
  /\ dsp.pc = "cleanup"
  /\ dsp.c > Len(dsp.job_ids)
  /\ dspRet' = [kind |-> "RuntimeError", tasks |-> dsp.tasks,
                ids |-> dsp.job_ids, tried |-> dsp.tried]
  /\ dsp' = IdleDispatch
  /\ UNCHANGED <<rq, task_status_key>>

\* an RQ worker takes a queued job
RqWorkerPickup(t) ==
  /\ rq[t] = "queued"
  /\ rq' = [rq EXCEPT ![t] = "started"]
  /\ UNCHANGED <<dsp, task_status_key, dspRet>>

\* ------------------------------------------------------------------------
\* RoleDir and Role routes (role_dirs.py, roles.py)
\* ------------------------------------------------------------------------
VARIABLES
  roles_dir,    \* table roles_dir: id -> ip, NoRow where there is no row
  next_dir_id,  \* the next primary key of roles_dir
  roles_tbl,    \* table roles: id -> [name, ip_id, create_from], NoRole if no row
  next_role_id, \* the next primary key of roles
  crudResp      \* the answer to the last request

crudVars == <<roles_dir, next_dir_id, roles_tbl, next_role_id, crudResp>>

NoRow == "-"
DirIds == 1..MaxDirRows
RoleIds == 1..MaxRoleRows
Ips == {"game", "anime"}
RoleNames == {"amiya", "exusiai"}
\* optional fields of RoleDirUpdate and RoleUpdate: left out of the payload
Unset == "unset"
UnsetId == 0 - 1
\* no row under a key of roles
NoRole == [name |-> "-", ip_id |-> 0, create_from |-> "-"]
\* ip_id values a payload can name: 0 and the keys of the model
IpIdInputs == 0..MaxDirRows

\* a nullable column holding NULL, a payload field given as null
Null == "null"
\* Role.create_from: free text or NULL
CreateFroms == {"web", Null}

NoCrudResp == [op |-> "none", code |-> 0, id |-> 0, ip |-> Unset, ip_id |-> UnsetId,
               create_from |-> Unset]
CrudResp(op, code, id, ip, ip_id) ==
  [op |-> op, code |-> code, id |-> id, ip |-> ip, ip_id |-> ip_id,
   create_from |-> Unset]

\* variant: model_dump() without exclude_unset, an omitted field arrives as
\* its default
SqlmodelUpdateAllFields(stored, given, unset) == given

\* model_dump(exclude_unset=True) and sqlmodel_update, one field: a field left
\* out of the payload keeps the stored value, a field in the payload is set
sqlmodel_update(stored, given, unset) == IF given = unset THEN stored ELSE given

\* session.get(RoleDir, id)
get_role_dir(id) == IF id \in DirIds THEN roles_dir[id] ELSE NoRow

\* variant: a uniqueness query that finds nothing
ExistingRoleDirNone(ip) == FALSE

\* select(RoleDir).where(RoleDir.ip == ip).first() is a row
existing_role_dir(ip) == \E d \in DirIds : roles_dir[d] = ip

\* select(Role).where(Role.name == name).first() is a row
existing_role(name) ==
  \E r \in RoleIds : roles_tbl[r] # NoRole /\ roles_tbl[r].name = name

\* Python truthiness of an optional payload value: a string (the empty string
\* does not pass validation) and an integer
TruthyStr(v) == v # Unset
TruthyInt(v) == v # UnsetId /\ v # 0

\* create_role_dir
create_role_dir(ip) ==
  /\ IF existing_role_dir(ip)
       THEN /\ crudResp' = CrudResp("create_role_dir", 400, 0, ip, UnsetId)
            /\ UNCHANGED <<roles_dir, next_dir_id>>
       ELSE /\ next_dir_id \in DirIds
            /\ roles_dir' = [roles_dir EXCEPT ![next_dir_id] = ip]
            /\ next_dir_id' = next_dir_id + 1
            /\ crudResp' = CrudResp("create_role_dir", 200, next_dir_id, ip, UnsetId)
  /\ UNCHANGED <<roles_tbl, next_role_id>>

\* update_role_dir; ip is a name or Unset
update_role_dir(id, ip) ==
  /\ IF get_role_dir(id) = NoRow
       THEN /\ crudResp' = CrudResp("update_role_dir", 404, id, ip, UnsetId)
            /\ UNCHANGED roles_dir
       ELSE IF TruthyStr(ip) /\ ip # roles_dir[id] /\ existing_role_dir(ip)
         THEN /\ crudResp' = CrudResp("update_role_dir", 409, id, ip, UnsetId)
              /\ UNCHANGED roles_dir
         ELSE /\ roles_dir' = [roles_dir EXCEPT ![id] = sqlmodel_update(@, ip, Unset)]
              /\ crudResp' = CrudResp("update_role_dir", 200, id, ip, UnsetId)
  /\ UNCHANGED <<next_dir_id, roles_tbl, next_role_id>>

\* delete_role_dir; a row that roles still reference cannot go (roles.ip_id is
\* a required foreign key) and the commit fails
delete_role_dir(id) ==
  /\ IF get_role_dir(id) = NoRow
       THEN /\ crudResp' = CrudResp("delete_role_dir", 404, id, Unset, UnsetId)
            /\ UNCHANGED roles_dir
       ELSE IF \E r \in RoleIds : roles_tbl[r] # NoRole /\ roles_tbl[r].ip_id = id
         THEN /\ crudResp' = CrudResp("delete_role_dir", 500, id, Unset, UnsetId)
              /\ UNCHANGED roles_dir
         ELSE /\ roles_dir' = [roles_dir EXCEPT ![id] = NoRow]
              /\ crudResp' = CrudResp("delete_role_dir", 200, id, Unset, UnsetId)
  /\ UNCHANGED <<next_dir_id, roles_tbl, next_role_id>>

\* create_role
create_role(name, ip_id, create_from) ==
  /\ IF get_role_dir(ip_id) = NoRow \/ existing_role(name)
       THEN /\ crudResp' = [CrudResp("create_role", 400, 0, name, ip_id)
                              EXCEPT !.create_from = create_from]
            /\ UNCHANGED <<roles_tbl, next_role_id>>
       ELSE /\ next_role_id \in RoleIds
            /\ roles_tbl' = [roles_tbl EXCEPT ![next_role_id] =
                               [name |-> name, ip_id |-> ip_id,
                                create_from |-> create_from]]
            /\ next_role_id' = next_role_id + 1
            /\ crudResp' = [CrudResp("create_role", 200, next_role_id, name, ip_id)
                              EXCEPT !.create_from = create_from]
  /\ UNCHANGED <<roles_dir, next_dir_id>>

\* update_role; name, ip_id and create_from are values or left out. The
\* commit of a row whose ip_id has no roles_dir row violates the foreign key
\* and fails (500)
update_role(id, name, ip_id, create_from) ==
  /\ LET answer(code) == [CrudResp("update_role", code, id, name, ip_id)
                            EXCEPT !.create_from = create_from]
     IN
     IF id \notin RoleIds \/ roles_tbl[id] = NoRole
       THEN /\ crudResp' = answer(404)
            /\ UNCHANGED roles_tbl
       ELSE LET db_role == roles_tbl[id]
                updated ==
                  [name  |-> sqlmodel_update(db_role.name, name, Unset),
                   ip_id |-> sqlmodel_update(db_role.ip_id, ip_id, UnsetId),
                   create_from |->
                     sqlmodel_update(db_role.create_from, create_from, Unset)]
            IN
            IF TruthyInt(ip_id) /\ ip_id # db_role.ip_id /\ get_role_dir(ip_id) = NoRow
              THEN /\ crudResp' = answer(400)
                   /\ UNCHANGED roles_tbl
            ELSE IF TruthyStr(name) /\ name # db_role.name /\ existing_role(name)
              THEN /\ crudResp' = answer(409)
                   /\ UNCHANGED roles_tbl
            ELSE IF get_role_dir(updated.ip_id) = NoRow
              THEN /\ crudResp' = answer(500)
                   /\ UNCHANGED roles_tbl
            ELSE /\ roles_tbl' = [roles_tbl EXCEPT ![id] = updated]
                 /\ crudResp' = answer(200)
  /\ UNCHANGED <<roles_dir, next_dir_id, next_role_id>>

\* delete_role
delete_role(id) ==
  /\ IF id \notin RoleIds \/ roles_tbl[id] = NoRole
       THEN /\ crudResp' = CrudResp("delete_role", 404, id, Unset, UnsetId)
            /\ UNCHANGED roles_tbl
       ELSE /\ roles_tbl' = [roles_tbl EXCEPT ![id] = NoRole]
            /\ crudResp' = CrudResp("delete_role", 200, id, Unset, UnsetId)
  /\ UNCHANGED <<roles_dir, next_dir_id, next_role_id>>

\* payload values of TaskCreatRolePromptUpdate that stand for a field left out
UnsetName == <<>>
UnsetPrompt == [kind |-> "unset", previous_state |-> "-"]
\* a role id without a roles row
MissingRole == "r9"

\* update_task_creat_role_prompt; t = 0 is an id without a row
update_task_creat_role_prompt(t, name, state, prompt, role_id) ==
  /\ LET answer(code) ==
           [op |-> "update_task", code |-> code, id |-> t, task_name |-> name,
            task_state |-> state, role_item_prompt |-> prompt, role_id |-> role_id]
     IN
     IF t \notin Tasks
       THEN /\ crudResp' = answer(404)
            /\ UNCHANGED <<task_name, task_state, role_item_prompt, task_role>>
       ELSE IF TruthyStr(role_id) /\ role_id # task_role[t] /\ role_id \notin Roles
         THEN /\ crudResp' = answer(404)
              /\ UNCHANGED <<task_name, task_state, role_item_prompt, task_role>>
         ELSE /\ task_name' =
                   [task_name EXCEPT ![t] = sqlmodel_update(@, name, UnsetName)]
              /\ task_state' =
                   [task_state EXCEPT ![t] = sqlmodel_update(@, state, Unset)]
              /\ role_item_prompt' =
                   [role_item_prompt EXCEPT ![t] = sqlmodel_update(@, prompt, UnsetPrompt)]
              /\ task_role' =
                   [task_role EXCEPT ![t] = sqlmodel_update(@, role_id, Unset)]
              /\ crudResp' = answer(200)
  /\ UNCHANGED <<roles_dir, next_dir_id, roles_tbl, next_role_id>>

\* ------------------------------------------------------------------------
\* BatchExecution figures: get_progress and the success rate of a refresh
\* (batch_manager.py). Python floats are IEEE-754 doubles; a positive double
\* is kept as its 53-bit significand, in five digits of 13 bits under a
\* leading 1, and the exponent e of the leading bit:
\*   value = (m[1]*2^52 + m[2]*2^39 + m[3]*2^26 + m[4]*2^13 + m[5]) * 2^(e-52)
\* ------------------------------------------------------------------------
VARIABLES
  bx,        \* the BatchExecution object: its counters and success_rate
  progress   \* the value the last get_progress call returned

statVars == <<bx, progress>>

Digit == 2^13
FloatZero == [m |-> <<0, 0, 0, 0, 0>>, e |-> 0]

\* the next double above a positive double
FloatSucc(x) ==
  LET m == x.m IN
  IF m[5] + 1 < Digit THEN [x EXCEPT !.m = <<m[1], m[2], m[3], m[4], m[5] + 1>>]
  ELSE IF m[4] + 1 < Digit THEN [x EXCEPT !.m = <<m[1], m[2], m[3], m[4] + 1, 0>>]
  ELSE IF m[3] + 1 < Digit THEN [x EXCEPT !.m = <<m[1], m[2], m[3] + 1, 0, 0>>]
  ELSE IF m[2] + 1 < Digit THEN [x EXCEPT !.m = <<m[1], m[2] + 1, 0, 0, 0>>]
  ELSE [m |-> <<1, 0, 0, 0, 0>>, e |-> x.e + 1]

\* round to nearest, ties to even: x is the truncated result, twice_rest/unit
\* twice the part that was cut off, in units of the last place
RoundNearestEven(x, twice_rest, unit) ==
  IF twice_rest > unit \/ (twice_rest = unit /\ x.m[5] % 2 = 1)
    THEN FloatSucc(x) ELSE x

\* a / b brought into [1, 2) by powers of two: <<a, b, e>>
RECURSIVE Normalize(_, _, _)
Normalize(a, b, e) ==
  IF a < b THEN Normalize(2 * a, b, e - 1)
  ELSE IF a >= 2 * b THEN Normalize(a, 2 * b, e + 1)
  ELSE <<a, b, e>>

\* float(a) / float(b) for integers a >= 0, b > 0: long division, 13 bits at
\* a time, then one rounding
FloatDiv(a, b) ==
  IF a = 0 THEN FloatZero
  ELSE LET n == Normalize(a, b, 0)
           d == n[2]
           r1 == n[1] - d
           r2 == (r1 * Digit) % d
           r3 == (r2 * Digit) % d
           r4 == (r3 * Digit) % d
           r5 == (r4 * Digit) % d
       IN RoundNearestEven(
            [m |-> <<1, (r1 * Digit) \div d, (r2 * Digit) \div d,
                        (r3 * Digit) \div d, (r4 * Digit) \div d>>,
             e |-> n[3]],
            2 * r5, d)

\* x * 100: the exact product has 59 or 60 bits; it is cut to 53 and rounded
FloatTimes100(x) ==
  IF x = FloatZero THEN FloatZero
  ELSE LET m == x.m
           s5 == m[5] * 100
           s4 == m[4] * 100 + (s5 \div Digit)
           s3 == m[3] * 100 + (s4 \div Digit)
           s2 == m[2] * 100 + (s3 \div Digit)
           q1 == m[1] * 100 + (s2 \div Digit)
           q2 == s2 % Digit
           q3 == s3 % Digit
           q4 == s4 % Digit
           q5 == s5 % Digit
           s == IF q1 >= 128 THEN 7 ELSE 6
           cut == 2^s
           up == 2^(13 - s)
       IN RoundNearestEven(
            [m |-> <<q1 \div cut,
                     (q1 % cut) * up + (q2 \div cut),
                     (q2 % cut) * up + (q3 \div cut),
                     (q3 % cut) * up + (q4 \div cut),
                     (q4 % cut) * up + (q5 \div cut)>>,
             e |-> x.e + s],
            2 * (q5 % cut), cut)

\* (a / b) * 100 as the code computes it, for the counts of a batch
Percent ==
  [a \in 0..MaxTotal, b \in 1..MaxTotal |-> FloatTimes100(FloatDiv(a, b))]

\* a new BatchExecution of total tasks
NewBatchExecution(total) ==
  [total_tasks |-> total, queued_tasks |-> 0, running_tasks |-> 0,
   completed_tasks |-> 0, failed_tasks |-> 0, cancelled_tasks |-> 0,
   success_rate |-> FloatZero]

NoProgress == [called |-> FALSE, value |-> FloatZero]

\* variant: a progress that forgets the cancelled tasks
FinishedWithoutCancelled(b) == b.completed_tasks + b.failed_tasks

\* finished, in get_progress
finished(b) == b.completed_tasks + b.failed_tasks + b.cancelled_tasks

\* BatchExecution.get_progress
get_progress(b) ==
  IF b.total_tasks = 0 THEN FloatZero
  ELSE Percent[finished(b), b.total_tasks]

\* the rows of the grouped count query: how many tasks of the batch are in Q,
\* R, C, F and X (tasks in other states are in none of these)
StatCounts(q, r, c, f, x) == [Q |-> q, R |-> r, C |-> c, F |-> f, X |-> x]

\* _refresh_batch_statistics: the counters and the success rate
RefreshStatistics(k) ==
  /\ LET finished_tasks == k.C + k.F IN
     bx' = [bx EXCEPT !.queued_tasks = k.Q, !.running_tasks = k.R,
                      !.completed_tasks = k.C, !.failed_tasks = k.F,
                      !.cancelled_tasks = k.X,
                      !.success_rate =
                        IF finished_tasks > 0
                          THEN Percent[k.C, finished_tasks]
                          ELSE @]
  /\ progress' = NoProgress

\* a caller reads get_progress()
GetProgress ==
  /\ progress' = [called |-> TRUE, value |-> get_progress(bx)]
  /\ UNCHANGED bx

\* ------------------------------------------------------------------------
\* _deep_merge_dict (sync_to_role_prompts.py)
\* A dict is a record over the keys of its level; a value carries its Python
\* type t ("-" for a key the dict does not have, "s" scalar, "l" list, "d"
\* dict) and the scalar, the list or the inner dict.
\* ------------------------------------------------------------------------
VARIABLES
  dmerge   \* [target0, source, target, n]: the target before the first merge,
           \* the source, the target now, and how often source was merged

mergeVars == <<dmerge>>

Absent2 == [t |-> "-", s |-> 0, l |-> <<>>, d |-> 0]
Scalar2(n) == [t |-> "s", s |-> n, l |-> <<>>, d |-> 0]
\* inner dicts: keys x and y, scalar values
InnerDicts == [x : {Absent2, Scalar2(1), Scalar2(2)}, y : {Absent2, Scalar2(2)}]
EmptyInner == [x |-> Absent2, y |-> Absent2]

Absent1 == [t |-> "-", s |-> 0, l |-> <<>>, d |-> EmptyInner]
Scalar1(n) == [t |-> "s", s |-> n, l |-> <<>>, d |-> EmptyInner]
List1(q) == [t |-> "l", s |-> 0, l |-> q, d |-> EmptyInner]
Dict1(d) == [t |-> "d", s |-> 0, l |-> <<>>, d |-> d]
MergeLists == {<<>>, <<1, 2>>, <<2, 3>>, <<3, 3>>}
Values1 == {Absent1} \cup {Scalar1(n) : n \in {1, 2}}
             \cup {List1(q) : q \in MergeLists} \cup {Dict1(d) : d \in InnerDicts}
\* outer dicts: keys a and b
OuterDicts == [a : Values1, b : Values1]

ElementsOf(q) == {q[n] : n \in DOMAIN q}

\* variant: extend with every item of the source list
RECURSIVE ExtendAll(_, _)
ExtendAll(tl, sl) ==
  IF sl = <<>> THEN tl ELSE ExtendAll(Append(tl, Head(sl)), Tail(sl))

\* target[key].extend(item for item in value if item not in target[key]): the
\* generator tests each item against the list as it has grown so far
RECURSIVE ExtendNew(_, _)
ExtendNew(tl, sl) ==
  IF sl = <<>> THEN tl
  ELSE ExtendNew(IF Head(sl) \in ElementsOf(tl) THEN tl ELSE Append(tl, Head(sl)),
                 Tail(sl))

\* _deep_merge_dict: the target after the loop over source.items()
RECURSIVE deep_merge_dict(_, _)
deep_merge_dict(target, source) ==
  [key \in DOMAIN source |->
     LET value == source[key] IN
     IF value.t = "-" THEN target[key]
     ELSE IF target[key].t # "-"
       THEN IF target[key].t = "d" /\ value.t = "d"
              THEN [target[key] EXCEPT !.d = deep_merge_dict(@, value.d)]
            ELSE IF target[key].t = "l" /\ value.t = "l"
              THEN [target[key] EXCEPT !.l = ExtendNew(@, value.l)]
            ELSE value
       ELSE value]

\* one call _deep_merge_dict(target, source)
DeepMerge ==
  /\ dmerge.n < 2
  /\ dmerge' = [dmerge EXCEPT !.target = deep_merge_dict(@, dmerge.source),
                              !.n = @ + 1]

IdleMerge == [target0 |-> [a |-> Absent1, b |-> Absent1],
              source |-> [a |-> Absent1, b |-> Absent1],
              target |-> [a |-> Absent1, b |-> Absent1], n |-> 0]

\* ------------------------------------------------------------------------
\* _extract_batch_number and _extract_and_group_by_batch on the text of the
\* task names (sync_to_role_prompts.py).  A text is the sequence of its
\* characters.
\* ------------------------------------------------------------------------
VARIABLES
  xb   \* [names, numbers, groups, done]: the names of the tasks given, the
       \* batch number extracted from each, and the groups returned

extractVars == <<xb>>

MaxNameLen == 5
DigitChars == {"1", "2"}
Chars == {"-", "a"} \cup DigitChars
Texts == UNION {[1..n -> Chars] : n \in 0..MaxNameLen}
\* the names of the second task
OtherNames == {<<>>, <<"a">>, <<"a", "-", "1", "-", "a">>, <<"1", "-", "a", "-", "1">>}

\* task_name.split('-')
RECURSIVE split(_)
split(text) ==
  IF \A i \in DOMAIN text : text[i] # "-" THEN <<text>>
  ELSE LET i == CHOOSE i \in DOMAIN text :
                  text[i] = "-" /\ \A j \in 1..(i - 1) : text[j] # "-"
       IN <<SubSeq(text, 1, i - 1)>> \o split(SubSeq(text, i + 1, Len(text)))

\* str.isdigit(): not empty and every character a digit
isdigit(text) == text # <<>> /\ \A i \in DOMAIN text : text[i] \in DigitChars

\* variant: the second segment whatever it consists of
ExtractSecondSegment(text) ==
  LET parts == split(text) IN IF Len(parts) >= 3 THEN parts[2] ELSE <<>>

\* _extract_batch_number on the text of a name; <<>> is ""
extract_batch_number_str(text) ==
  LET parts == split(text)
  IN IF Len(parts) >= 3 /\ isdigit(parts[2]) THEN parts[2] ELSE <<>>

\* _extract_and_group_by_batch: under each batch number the tasks that gave it,
\* in the order of the list; a task without a name is skipped
extract_and_group_by_batch(names) ==
  LET number(t) == IF names[t] = <<>> THEN <<>> ELSE extract_batch_number_str(names[t])
  IN [b \in {number(t) : t \in DOMAIN names} \ {<<>>} |->
        SelectSeq([t \in DOMAIN names |-> t], LAMBDA t : number(t) = b)]

IdleExtract == [names |-> <<>>, numbers |-> <<>>, groups |-> <<>>, done |-> FALSE]

\* the batch numbers of the names and the groups of the tasks
ExtractAndGroup ==
  /\ ~xb.done
  /\ xb' = [xb EXCEPT
       !.numbers = [t \in DOMAIN xb.names |-> extract_batch_number_str(xb.names[t])],
       !.groups = extract_and_group_by_batch(xb.names),
       !.done = TRUE]

\* ------------------------------------------------------------------------
\* BatchManager.list_active_batches and the lock of active_batches
\* (batch_manager.py).  One manager and the coroutines of its event loop:
\* "list" runs list_active_batches, "direct" calls get_batch_statistics.
\* ------------------------------------------------------------------------
VARIABLES
  active_batches,  \* [BatchIds -> status, or NoBatch for an id not in the map]
  batch_lock,      \* the holder of the asyncio.Lock, LockFree if none
  lst,             \* list_active_batches: [pc, i, out]
  direct           \* the other caller of get_batch_statistics: its pc

listVars == <<active_batches, batch_lock, lst, direct>>

MaxBatches == 2
BatchIds == 1..MaxBatches
NoBatch == "none"
LockFree == "free"
IdleList == [pc |-> "idle", i |-> 0, out |-> <<>>]

\* the caller whose get_batch is about to enter "async with self.batch_lock"
AtGetBatch(c) == IF c = "list" THEN lst.pc = "stats" ELSE direct = "stats"

\* list_active_batches is called: it takes the lock and starts the loop over
\* active_batches.items()
ListCall ==
  /\ lst.pc \in {"idle", "returned"}
  /\ batch_lock = LockFree
  /\ batch_lock' = "list"
  /\ lst' = [pc |-> "loop", i |-> 1, out |-> <<>>]
  /\ UNCHANGED <<active_batches, direct>>

\* one iteration of the loop: a finished batch is passed over, for any other
\* get_batch_statistics is awaited; after the last the lock is released and
\* the list returned
ListStep ==
  /\ lst.pc = "loop"
  /\ IF lst.i > MaxBatches
       THEN /\ lst' = [lst EXCEPT !.pc = "returned"]
            /\ batch_lock' = LockFree
       ELSE /\ UNCHANGED batch_lock
            /\ IF active_batches[lst.i] = NoBatch \/ is_finished(active_batches[lst.i])
                 THEN lst' = [lst EXCEPT !.i = @ + 1]
                 ELSE lst' = [lst EXCEPT !.pc = "stats"]
  /\ UNCHANGED <<active_batches, direct>>

\* another coroutine calls get_batch_statistics
DirectCall ==
  /\ direct = "idle"
  /\ direct' = "stats"
  /\ UNCHANGED <<active_batches, batch_lock, lst>>

\* asyncio.Lock: acquire goes on only when nobody holds the lock
LockOpen(c) == batch_lock = LockFree

\* get_batch_statistics from get_batch on: the lock is taken and released
\* around the look-up, and again by _update_batch_status after the refresh;
\* the statistics are returned to the caller
GetBatchStatistics(c) ==
  /\ AtGetBatch(c)
  /\ LockOpen(c)
  /\ IF c = "list"
       THEN /\ lst' = [lst EXCEPT !.pc = "loop", !.i = @ + 1,
                                  !.out = Append(@, lst.i)]
            /\ UNCHANGED direct
       ELSE /\ direct' = "idle"
            /\ UNCHANGED lst
  /\ UNCHANGED <<active_batches, batch_lock>>

\* ------------------------------------------------------------------------
\* Aggregations of one role that overlap: the monitor creates a task
\* aggregate_role_results(role_id) in each iteration and does not await it
\* (batch_manager.py 568-582); the runs share the rows of role_prompt.
\* ------------------------------------------------------------------------
VARIABLES
  runs   \* [AggRuns -> [pc, new_version]]: the aggregations in flight, each past
         \* its checks and inside _create_role_prompt

overlapVars == <<runs>>

NumRuns == 2
AggRuns == 1..NumRuns
IdleRun == [pc |-> "idle", new_version |-> 0]

\* _create_role_prompt of run k: the latest version is read
RunReadLatest(k) ==
  /\ runs[k].pc = "create"
  /\ runs' = [runs EXCEPT ![k] =
                [pc |-> "insert",
                 new_version |-> new_version(get_latest_version(role_prompt))]]
  /\ UNCHANGED role_prompt

\* _create_role_prompt of run k: the new row is added and committed
RunInsert(k) ==
  /\ runs[k].pc = "insert"
  /\ role_prompt' = Append(role_prompt,
                           [version |-> runs[k].new_version, is_active |-> "Y"])
  /\ runs' = [runs EXCEPT ![k].pc = "deactivate"]

\* _create_role_prompt of run k: the rows of other versions are deactivated
RunDeactivate(k) ==
  /\ runs[k].pc = "deactivate"
  /\ role_prompt' = deactivate_old_versions(role_prompt, runs[k].new_version)
  /\ runs' = [runs EXCEPT ![k].pc = "done"]

\* the groups of the specifications defined last
\* ------------------------------------------------------------------------
\* execute_task and the JSON tasks (simple_task_executor.py).  A task command
\* is kept as what the two tests read of it: whether it is a dict, its
\* description (absent, a text, a string holding JSON that is no object, a
\* string holding a JSON object, a dict; with the object's output_format.type
\* and task_type), its own output_format.type and whether a message holds one
\* of the JSON indicators.  A text of the provider is a JSON object, another
\* JSON value, a text that is no JSON, or empty.
\* ------------------------------------------------------------------------
VARIABLES
  jx   \* one execute_task: [pc, task_cmd, content, result, stored]

jsonVars == <<jx>>

NoDescription == [form |-> "absent", output_type |-> "-", task_type |-> "-"]
Descriptions ==
  {NoDescription}
  \cup {[form |-> f, output_type |-> "-", task_type |-> "-"] : f \in {"text", "str_other"}}
  \cup [form : {"str_object", "dict"}, output_type : {"json", "-"},
        task_type : {"json_generation", "-"}]

\* a task_cmd that is no dict
PlainCommand == [is_dict |-> FALSE, description |-> NoDescription,
                 output_format |-> "-", messages |-> FALSE]
Commands ==
  {PlainCommand}
  \cup [is_dict : {TRUE}, description : Descriptions, output_format : {"json", "-"},
        messages : BOOLEAN]

ProviderTexts == {"object", "other_json", "text", ""}

NoValue == [kind |-> "-", repaired |-> FALSE]
NoStored == [form |-> "-", value |-> NoValue]

\* _parse_description_field: a string that holds a JSON object becomes the dict
parse_description_field(command) ==
  IF command.description.form = "str_object"
    THEN [command EXCEPT !.description.form = "dict"]
    ELSE command

\* _prepare_task_command_with_role_replacement: {"content": str(task_cmd)} for
\* a command that is no dict, else the copy with its description parsed
prepare_task_command(task_cmd) ==
  IF ~task_cmd.is_dict
    THEN [PlainCommand EXCEPT !.is_dict = TRUE]
    ELSE parse_description_field(task_cmd)

\* _is_json_task
is_json_task(command) ==
  \/ /\ command.description.form \in {"dict", "str_object"}
     /\ command.description.output_type = "json"
  \/ command.messages

\* _ensure_json_output: a text that parses is kept, any other text is replaced
\* by the dump of a dict (_smart_json_generation, _get_fallback_json)
ensure_json_output(content) ==
  IF content \in {"object", "other_json"}
    THEN [kind |-> content, repaired |-> FALSE]
    ELSE [kind |-> "object", repaired |-> TRUE]

\* _call_ai_api_enhanced on a response with this generated_content
call_ai_api_enhanced(command, content) ==
  IF content = "" THEN NoValue
  ELSE IF is_json_task(command) THEN ensure_json_output(content)
  ELSE [kind |-> content, repaired |-> FALSE]

\* _is_json_task_result; result is the value _process_ai_result gave, a dict
\* exactly when the text was a JSON object.  desc_json.get raises on a JSON
\* value that is no object, and the handler of the function answers False
is_json_task_result(task_cmd, result) ==
  /\ task_cmd.is_dict
  /\ task_cmd.description.form # "str_other"
  /\ \/ /\ task_cmd.description.form = "str_object"
        /\ task_cmd.description.task_type = "json_generation"
     \/ task_cmd.output_format = "json"
  /\ result.kind = "object"

\* the call of the provider: a text, or no text and the task marked failed
CallAiApi ==
  /\ jx.pc = "ready"
  /\ LET result == call_ai_api_enhanced(prepare_task_command(jx.task_cmd), jx.content)
     IN jx' = [jx EXCEPT !.pc = IF result = NoValue THEN "failed" ELSE "called",
                         !.result = result]

\* the result is stored: as it is, or in the {content, generated_at} wrapper
StoreResult ==
  /\ jx.pc = "called"
  /\ jx' = [jx EXCEPT !.pc = "stored",
                      !.stored =
                        [form |-> IF is_json_task_result(jx.task_cmd, jx.result)
                                    THEN "direct" ELSE "wrapper",
                         value |-> jx.result]]

\* ------------------------------------------------------------------------
\* The key-value-store client of the batch handlers (batch_execution.py).
\* A request is one step: store is the state of the store for the batch id
\* ("down": no connection can be made), raise_at the call that raises.
\* ------------------------------------------------------------------------
VARIABLES
  connResp,          \* the request just served: [handler, action, code,
                     \* opened, closed]
  open_connections,  \* connections opened by ended requests and not closed
  served             \* the number of requests served

connVars == <<connResp, open_connections, served>>

MaxServed == 4
StoreStates == {"down", "missing", "unfinished", "finished"}
\* request.action: the four actions and any other text
RequestActions == BatchActions \cup {"other"}

NoConnResp == [handler |-> "-", action |-> "-", code |-> 0, opened |-> FALSE,
               closed |-> FALSE]

\* the request ends with this answer; closed tells whether
\* "await redis_client.close()" was executed
EndRequest(handler, action, code, opened, closed) ==
  /\ served < MaxServed
  /\ served' = served + 1
  /\ connResp' = [handler |-> handler, action |-> action, code |-> code,
                  opened |-> opened, closed |-> closed]
  /\ open_connections' = open_connections + (IF opened /\ ~closed THEN 1 ELSE 0)

\* get_batch: the first command on the client makes the connection; an error
\* of the store is caught by _load_batch_from_db, which answers None
Connects(store) == store # "down"
BatchFound(store) == store \in {"unfinished", "finished"}

\* batch_action
batch_action_redis(store, action, result, raise_at) ==
  IF raise_at = "from_url" THEN EndRequest("batch_action", action, 500, FALSE, FALSE)
  ELSE IF ~BatchFound(store)
    THEN EndRequest("batch_action", action, 404, Connects(store), FALSE)
  ELSE IF action = "other" THEN EndRequest("batch_action", action, 400, TRUE, FALSE)
  ELSE IF raise_at = "action" THEN EndRequest("batch_action", action, 500, TRUE, FALSE)
  ELSE IF ~result THEN EndRequest("batch_action", action, 400, TRUE, FALSE)
  ELSE IF raise_at = "statistics"
    THEN EndRequest("batch_action", action, 500, TRUE, FALSE)
  ELSE EndRequest("batch_action", action, 200, TRUE, TRUE)

\* get_batch_status
get_batch_status_redis(store, raise_at) ==
  IF raise_at = "from_url" THEN EndRequest("get_batch_status", "-", 500, FALSE, FALSE)
  ELSE IF BatchFound(store) /\ raise_at = "statistics"
    THEN EndRequest("get_batch_status", "-", 500, TRUE, FALSE)
  ELSE IF ~BatchFound(store)
    THEN EndRequest("get_batch_status", "-", 404, Connects(store), FALSE)
  ELSE EndRequest("get_batch_status", "-", 200, TRUE, TRUE)

\* delete_batch
delete_batch_redis(store, raise_at) ==
  IF raise_at = "from_url" THEN EndRequest("delete_batch", "-", 500, FALSE, FALSE)
  ELSE IF ~BatchFound(store)
    THEN EndRequest("delete_batch", "-", 404, Connects(store), FALSE)
  ELSE IF store # "finished" THEN EndRequest("delete_batch", "-", 400, TRUE, FALSE)
  ELSE EndRequest("delete_batch", "-", 200, TRUE, TRUE)

lastVars == <<jsonVars, connVars>>

moreVars == <<listVars, overlapVars, lastVars>>

\* the groups added last, idle in the specifications before them
lateVars == <<statVars, mergeVars, extractVars, moreVars>>

\* the groups added after the first specifications, idle in them
restVars == <<dispVars, crudVars, lateVars>>


\* ------------------------------------------------------------------------
\* Specifications
\* ------------------------------------------------------------------------
vars == <<dbVars, routeVars, batchVars, clock, rlVars, cbVars, aggVars, syncVars, apiVars, restVars>>

InitDispatch ==
  /\ dsp = IdleDispatch
  /\ rq = [t \in Tasks |-> "none"]
  /\ task_status_key = [t \in Tasks |-> "none"]
  /\ dspRet = NoDispatchRet

InitCrud ==
  /\ roles_dir = [d \in DirIds |-> NoRow]
  /\ next_dir_id = 1
  /\ roles_tbl = [r \in RoleIds |-> NoRole]
  /\ next_role_id = 1
  /\ crudResp = NoCrudResp

InitStat ==
  /\ bx = NewBatchExecution(0)
  /\ progress = NoProgress

InitMerge == dmerge = IdleMerge

InitExtract == xb = IdleExtract

InitList ==
  /\ active_batches = [b \in BatchIds |-> NoBatch]
  /\ batch_lock = LockFree
  /\ lst = IdleList
  /\ direct = "idle"

InitOverlap == runs = [k \in AggRuns |-> IdleRun]

InitJson == jx = [pc |-> "idle", task_cmd |-> PlainCommand, content |-> "",
                  result |-> NoValue, stored |-> NoStored]

InitConn ==
  /\ connResp = NoConnResp
  /\ open_connections = 0
  /\ served = 0

InitLast == InitJson /\ InitConn

InitMore == InitList /\ InitOverlap /\ InitLast

InitLate == InitStat /\ InitMerge /\ InitExtract /\ InitMore

InitRest == InitDispatch /\ InitCrud /\ InitLate

InitRoutes ==
  /\ startReq = EmptyBag
  /\ lastResp = NoResp
  /\ th = EmptyBag
  /\ lastRun = NoRun

InitBatch ==
  /\ batchStore = "PENDING"
  /\ job = [t \in Tasks |-> "none"]
  /\ mon = NoMonitor
  /\ batchResp = NoBatchResp

InitGateway ==
  /\ clock = 0
  /\ requests = <<>>
  /\ sleeper = NoSleeper
  /\ recent = <<>>
  /\ rlLast = NoAcquire
  /\ cb = [state |-> "CLOSED", failure_count |-> 0, last_failure_time |-> 0]
  /\ callpc = [c \in Callers |-> "idle"]
  /\ consec = 0
  /\ openedAt = 0
  /\ callRet = NoCall

InitSync ==
  /\ task_name = [t \in Tasks |-> <<"x", "x", "x", "x">>]
  /\ task_role = [t \in Tasks |-> "r1"]
  /\ sync = IdleSync
  /\ syncResp = NoSyncResp

InitApi ==
  /\ environment = "production"
  /\ apiResp = NoApiResp
  /\ performed = {}
  /\ nreq = 0

InitAgg ==
  /\ role_prompt = <<>>
  /\ agg = IdleAgg
  /\ written = <<>>
  /\ aggLast = FALSE
  /\ aggRet = NoAggRet

InitDb ==
  /\ task_state = [t \in Tasks |-> "P"]
  /\ role_item_prompt = [t \in Tasks |-> EmptyPrompt]

\* Spec: one row in any state, the others P
Init ==
  /\ task_state \in {f \in [Tasks -> TaskStates] :
                       \A t \in Tasks \ TaskRows : f[t] = "P"}
  /\ role_item_prompt = [t \in Tasks |-> EmptyPrompt]
  /\ InitRoutes /\ InitRest /\ InitBatch /\ InitGateway /\ InitAgg /\ InitSync /\ InitApi

notRoutes == <<batchVars, clock, rlVars, cbVars, aggVars, syncVars, apiVars, restVars>>

Next ==
  \/ (\E t \in TaskRows : StartCheck(t)) /\ UNCHANGED notRoutes
  \/ (\E q \in BagToSet(startReq), raised \in BOOLEAN : StartHandoff(q, raised))
       /\ UNCHANGED notRoutes
  \/ (\E t \in TaskRows : StopTask(t)) /\ UNCHANGED notRoutes
  \/ (\E x \in ThreadRecs, ok \in BOOLEAN : ExecBegin(x, ok)) /\ UNCHANGED notRoutes
  \/ (\E x \in ThreadRecs, o \in AiOutcomes, ok \in BOOLEAN : ExecCallAI(x, o, ok))
       /\ UNCHANGED notRoutes
  \/ (\E x \in ThreadRecs, ok \in BOOLEAN : ExecCommitC(x, ok)) /\ UNCHANGED notRoutes
  \/ (\E x \in ThreadRecs, ok \in BOOLEAN : ExecRetryC(x, ok)) /\ UNCHANGED notRoutes
  \/ (\E x \in ThreadRecs, ok \in BOOLEAN : ExecExcept(x, ok)) /\ UNCHANGED notRoutes

Spec == Init /\ [][Next]_vars

\* SpecBatch: the batch has been created from tasks that were P; since then the
\* task routes may have moved its tasks to any state
InitBatchSpec ==
  /\ task_state \in [Tasks -> TaskStates]
  /\ role_item_prompt = [t \in Tasks |-> EmptyPrompt]
  /\ InitRoutes /\ InitRest /\ InitBatch /\ InitGateway /\ InitAgg /\ InitSync /\ InitApi

notBatch == <<routeVars, clock, rlVars, cbVars, aggVars, syncVars, apiVars, restVars>>

NextBatch ==
  \/ (\E a \in BatchActions, ok \in BOOLEAN, k \in 0..NumTasks : batch_action(a, ok, k))
       /\ UNCHANGED notBatch
  \/ cancel_unknown_batch /\ UNCHANGED notBatch
  \/ get_batch_status /\ UNCHANGED notBatch
  \/ (\E late \in BOOLEAN : monitor_batch_execution(late)) /\ UNCHANGED notBatch
  \/ (\E t \in BatchTasks : WorkerPickup(t)) /\ UNCHANGED notBatch
  \/ (\E t \in BatchTasks, ok \in BOOLEAN : WorkerFinish(t, ok)) /\ UNCHANGED notBatch

SpecBatch == InitBatchSpec /\ [][NextBatch]_vars

\* SpecRL: a new limiter and callers that acquire again and again
InitRL == InitDb /\ InitRoutes /\ InitRest /\ InitBatch /\ InitGateway /\ InitAgg /\ InitSync /\ InitApi

notGateway == <<dbVars, routeVars, batchVars, aggVars, syncVars, apiVars, restVars>>

NextRL ==
  \/ (\E c \in Callers : acquire(c)) /\ UNCHANGED <<notGateway, cbVars>>
  \/ acquire_wake /\ UNCHANGED <<notGateway, cbVars>>
  \/ (\E d \in Deltas : Advance(d)) /\ UNCHANGED notGateway

SpecRL == InitRL /\ [][NextRL]_vars

\* SpecCB: a new client and callers of call_generate_api
InitCB == InitDb /\ InitRoutes /\ InitRest /\ InitBatch /\ InitGateway /\ InitAgg /\ InitSync /\ InitApi

NextCB ==
  \/ (\E c \in Callers, hit \in BOOLEAN : call_begin(c, hit))
       /\ UNCHANGED <<notGateway, rlVars>>
  \/ (\E c \in Callers, o \in Outcomes : call_end(c, o))
       /\ UNCHANGED <<notGateway, rlVars>>
  \/ (\E d \in Deltas : Advance(d)) /\ UNCHANGED notGateway

SpecCB == InitCB /\ [][NextCB]_vars

\* SpecAgg: the role has any rows to begin with (written by the CRUD routes,
\* the synchronizer or earlier aggregations); its tasks are waiting, running
\* or ended
InitRows ==
  UNION {[1..n -> [version : 0..MaxInitVersion, is_active : {"Y", "N"}]] :
           n \in 0..MaxInitRows}

InitAggSpec ==
  /\ task_state \in [Tasks -> {"P", "R", "C", "F"}]
  /\ role_item_prompt = [t \in Tasks |-> EmptyPrompt]
  /\ InitRoutes /\ InitRest /\ InitBatch /\ InitGateway /\ InitSync /\ InitApi
  /\ role_prompt \in InitRows
  /\ agg = IdleAgg
  /\ written = <<>>
  /\ aggLast = FALSE
  /\ aggRet = NoAggRet

notAgg == <<routeVars, batchVars, clock, rlVars, cbVars, syncVars, apiVars, restVars>>

NextAgg ==
  \/ (\E c \in Contents : \E short \in ShortRaw(c) : AggStart(short, c))
       /\ UNCHANGED notAgg
  \/ AggRefuse /\ UNCHANGED notAgg
  \/ AggReadLatest /\ UNCHANGED notAgg
  \/ AggInsert /\ UNCHANGED notAgg
  \/ AggDeactivate /\ UNCHANGED notAgg
  \/ (\E t \in Tasks, s \in {"C", "F"} : TaskEnds(t, s)) /\ UNCHANGED notAgg
  \/ (\E t \in Tasks : TaskBegins(t)) /\ UNCHANGED notAgg

SpecAgg == InitAggSpec /\ [][NextAgg]_vars

\* SpecSync: sync requests, one after the other, on tasks with any names and
\* roles that are waiting, completed (with or without a role_item_prompt) or
\* synchronized already
SyncTaskKinds == {<<"P", EmptyPrompt>>, <<"S", ResultPrompt>>,
                  <<"C", EmptyPrompt>>, <<"C", ResultPrompt>>}

InitSyncSpec ==
  /\ \E k \in [Tasks -> SyncTaskKinds] :
       /\ task_state = [t \in Tasks |-> k[t][1]]
       /\ role_item_prompt = [t \in Tasks |-> k[t][2]]
  /\ task_name \in [Tasks -> TaskNames]
  /\ task_role \in [Tasks -> Roles]
  /\ InitRoutes /\ InitRest /\ InitBatch /\ InitGateway /\ InitApi
  /\ role_prompt = <<>>
  /\ agg = IdleAgg
  /\ written = <<>>
  /\ aggLast = FALSE
  /\ aggRet = NoAggRet
  /\ sync = IdleSync
  /\ syncResp = NoSyncResp

notSync == <<routeVars, batchVars, clock, rlVars, cbVars,
             agg, written, aggLast, aggRet, apiVars, restVars>>

NextSync ==
  \/ (\E order \in UNION {Perms(S) : S \in SUBSET BatchNumbers} : SyncBegin(order))
       /\ UNCHANGED notSync
  \/ (\E fail \in SyncFailures : SyncBatchStep(fail)) /\ UNCHANGED notSync
  \/ SyncCommit /\ UNCHANGED notSync

SpecSync == InitSyncSpec /\ [][NextSync]_vars

\* SpecResync: sync requests one after the other; between two requests the
\* PATCH route of the tasks sets the state of a task
notResync == <<routeVars, batchVars, clock, rlVars, cbVars,
               agg, written, aggLast, aggRet, apiVars, dispVars, lateVars>>

NextResync ==
  \/ (\E order \in UNION {Perms(S) : S \in SUBSET BatchNumbers} : SyncBegin(order))
       /\ UNCHANGED <<notResync, crudVars>>
  \/ (\E fail \in SyncFailures : SyncBatchStep(fail))
       /\ UNCHANGED <<notResync, crudVars>>
  \/ SyncCommit /\ UNCHANGED <<notResync, crudVars>>
  \/ (\E t \in Tasks, state \in {"P", "C"} :
         /\ sync.pc = "idle"
         /\ update_task_creat_role_prompt(t, UnsetName, state, UnsetPrompt, Unset))
       /\ UNCHANGED <<notResync, role_prompt, sync, syncResp>>

SpecResync == InitSyncSpec /\ [][NextResync]_vars

\* SpecApi: the process is started in any environment and serves requests
InitApiSpec ==
  /\ InitDb /\ InitRoutes /\ InitRest /\ InitBatch /\ InitGateway /\ InitAgg /\ InitSync
  /\ environment \in Environments
  /\ apiResp = NoApiResp
  /\ performed = {}
  /\ nreq = 0

notApi == <<dbVars, routeVars, batchVars, clock, rlVars, cbVars, aggVars, syncVars, restVars>>

NextApi ==
  (\E h \in Handlers, caller \in ApiCallers : ApiRequest(h, caller)) /\ UNCHANGED notApi

SpecApi == InitApiSpec /\ [][NextApi]_vars

\* SpecDispatch: calls of dispatch_tasks, one at a time, beside the RQ workers
InitDispatchSpec ==
  /\ InitDb /\ InitRoutes /\ InitBatch /\ InitGateway /\ InitAgg /\ InitSync /\ InitApi
  /\ InitDispatch /\ InitCrud /\ InitLate

notDispatch == <<dbVars, routeVars, batchVars, clock, rlVars, cbVars, aggVars,
                 syncVars, apiVars, crudVars, lateVars>>

NextDispatch ==
  \/ (\E ts \in TaskLists : DispatchCall(ts)) /\ UNCHANGED notDispatch
  \/ (\E ok \in BOOLEAN : DispatchEnqueue(ok)) /\ UNCHANGED notDispatch
  \/ (\E ok \in BOOLEAN : DispatchUpdateStatus(ok)) /\ UNCHANGED notDispatch
  \/ (\E o \in CleanupOutcomes : DispatchCleanup(o)) /\ UNCHANGED notDispatch
  \/ DispatchRaise /\ UNCHANGED notDispatch
  \/ (\E t \in Tasks : RqWorkerPickup(t)) /\ UNCHANGED notDispatch

SpecDispatch == InitDispatchSpec /\ [][NextDispatch]_vars

\* SpecCrud: RoleDir and Role requests, served one after another, on tables
\* that start empty
InitCrudSpec ==
  /\ InitDb /\ InitRoutes /\ InitBatch /\ InitGateway /\ InitAgg /\ InitSync /\ InitApi
  /\ InitDispatch /\ InitCrud /\ InitLate

notCrud == <<dbVars, routeVars, batchVars, clock, rlVars, cbVars, aggVars,
             syncVars, apiVars, dispVars, lateVars>>

NextCrud ==
  \/ (\E ip \in Ips : create_role_dir(ip)) /\ UNCHANGED notCrud
  \/ (\E id \in DirIds, ip \in Ips \cup {Unset} : update_role_dir(id, ip))
       /\ UNCHANGED notCrud
  \/ (\E id \in DirIds : delete_role_dir(id)) /\ UNCHANGED notCrud
  \/ (\E name \in RoleNames, ip_id \in IpIdInputs, create_from \in CreateFroms :
         create_role(name, ip_id, create_from))
       /\ UNCHANGED notCrud
  \/ (\E id \in RoleIds, name \in RoleNames \cup {Unset},
         ip_id \in IpIdInputs \cup {UnsetId},
         create_from \in CreateFroms \cup {Unset} :
           update_role(id, name, ip_id, create_from))
       /\ UNCHANGED notCrud
  \/ (\E id \in RoleIds : delete_role(id)) /\ UNCHANGED notCrud

SpecCrud == InitCrudSpec /\ [][NextCrud]_vars

\* SpecPatch: PATCH requests on one roles_dir row, one roles row and the task
\* rows, whatever the rows hold
PatchNames == {<<"x", "1", "x", "x">>, <<"x", "2", "x", "x">>}

InitPatchSpec ==
  /\ InitDb /\ InitRoutes /\ InitBatch /\ InitGateway /\ InitAgg /\ InitApi
  /\ InitDispatch /\ InitLate
  /\ task_name = [t \in Tasks |-> <<"x", "1", "x", "x">>]
  /\ task_role = [t \in Tasks |-> "r1"]
  /\ sync = IdleSync
  /\ syncResp = NoSyncResp
  /\ \E ip \in Ips : roles_dir = [d \in DirIds |-> IF d = 1 THEN ip ELSE NoRow]
  /\ next_dir_id = 2
  /\ \E name \in RoleNames, create_from \in CreateFroms :
       roles_tbl = [r \in RoleIds |->
                      IF r = 1 THEN [name |-> name, ip_id |-> 1,
                                     create_from |-> create_from]
                      ELSE NoRole]
  /\ next_role_id = 2
  /\ crudResp = NoCrudResp

notPatch == <<routeVars, batchVars, clock, rlVars, cbVars, aggVars,
              sync, syncResp, apiVars, dispVars, lateVars>>

NextPatch ==
  \/ (\E id \in DirIds, ip \in Ips \cup {Unset} : update_role_dir(id, ip))
       /\ UNCHANGED <<notPatch, dbVars, task_name, task_role>>
  \/ (\E id \in RoleIds, name \in RoleNames \cup {Unset},
         ip_id \in IpIdInputs \cup {UnsetId},
         create_from \in CreateFroms \cup {Unset} :
           update_role(id, name, ip_id, create_from))
       /\ UNCHANGED <<notPatch, dbVars, task_name, task_role>>
  \/ (\E t \in {0} \cup TaskRows, name \in PatchNames \cup {UnsetName},
         state \in {"P", "C", Unset}, prompt \in {ResultPrompt, UnsetPrompt},
         role_id \in {"r2", MissingRole, Unset} :
           update_task_creat_role_prompt(t, name, state, prompt, role_id))
       /\ UNCHANGED notPatch

SpecPatch == InitPatchSpec /\ [][NextPatch]_vars

\* SpecStat: one BatchExecution of any size, refreshed from any counts and
\* asked for its progress
InitStatSpec ==
  /\ InitDb /\ InitRoutes /\ InitBatch /\ InitGateway /\ InitAgg /\ InitSync /\ InitApi
  /\ InitDispatch /\ InitCrud
  /\ \E total \in 0..MaxTotal : bx = NewBatchExecution(total)
  /\ progress = NoProgress
  /\ InitMerge /\ InitExtract /\ InitMore

notStat == <<dbVars, routeVars, batchVars, clock, rlVars, cbVars, aggVars,
             syncVars, apiVars, dispVars, crudVars, mergeVars, extractVars, moreVars>>

NextStat ==
  \/ (\E c \in 0..bx.total_tasks : \E f \in 0..(bx.total_tasks - c) :
        \E x \in 0..(bx.total_tasks - c - f) :
          \E r \in {0, bx.total_tasks - c - f - x} :
            RefreshStatistics(
              StatCounts(bx.total_tasks - c - f - x - r, r, c, f, x)))
       /\ UNCHANGED notStat
  \/ GetProgress /\ UNCHANGED notStat

SpecStat == InitStatSpec /\ [][NextStat]_vars

\* SpecMerge: _deep_merge_dict(target, source) on any two dicts, twice
InitMergeSpec ==
  /\ InitDb /\ InitRoutes /\ InitBatch /\ InitGateway /\ InitAgg /\ InitSync /\ InitApi
  /\ InitDispatch /\ InitCrud /\ InitStat /\ InitExtract /\ InitMore
  /\ \E target \in OuterDicts, source \in OuterDicts :
       dmerge = [target0 |-> target, source |-> source, target |-> target, n |-> 0]

notMerge == <<dbVars, routeVars, batchVars, clock, rlVars, cbVars, aggVars,
              syncVars, apiVars, dispVars, crudVars, statVars, extractVars, moreVars>>

NextMerge == DeepMerge /\ UNCHANGED notMerge

SpecMerge == InitMergeSpec /\ [][NextMerge]_vars

\* SpecExtract: the batch numbers and batch groups of any two task names
InitExtractSpec ==
  /\ InitDb /\ InitRoutes /\ InitBatch /\ InitGateway /\ InitAgg /\ InitSync /\ InitApi
  /\ InitDispatch /\ InitCrud /\ InitStat /\ InitMerge /\ InitMore
  /\ \E n1 \in Texts, n2 \in OtherNames :
       xb = [IdleExtract EXCEPT !.names = <<n1, n2>>]

notExtract == <<dbVars, routeVars, batchVars, clock, rlVars, cbVars, aggVars,
                syncVars, apiVars, dispVars, crudVars, statVars, mergeVars,
                moreVars>>

NextExtract == ExtractAndGroup /\ UNCHANGED notExtract

SpecExtract == InitExtractSpec /\ [][NextExtract]_vars

\* the groups and the initial condition shared by the specifications below
earlyVars == <<dbVars, routeVars, batchVars, clock, rlVars, cbVars, aggVars,
               syncVars, apiVars, dispVars, crudVars, statVars, mergeVars,
               extractVars>>

InitEarly ==
  /\ InitDb /\ InitRoutes /\ InitBatch /\ InitGateway /\ InitAgg /\ InitSync /\ InitApi
  /\ InitDispatch /\ InitCrud /\ InitStat /\ InitMerge /\ InitExtract

\* SpecList: a manager whose map holds any batches; list_active_batches and
\* another caller of get_batch_statistics, every coroutine scheduled fairly
InitListSpec ==
  /\ InitEarly
  /\ active_batches \in [BatchIds -> BatchStatuses \cup {NoBatch}]
  /\ batch_lock = LockFree
  /\ lst = IdleList
  /\ direct = "idle"
  /\ InitOverlap /\ InitLast

notList == <<earlyVars, overlapVars, lastVars>>

NextList ==
  \/ ListCall /\ UNCHANGED notList
  \/ ListStep /\ UNCHANGED notList
  \/ DirectCall /\ UNCHANGED notList
  \/ (\E c \in {"list", "direct"} : GetBatchStatistics(c)) /\ UNCHANGED notList

SpecList ==
  /\ InitListSpec /\ [][NextList]_vars
  /\ WF_vars(ListStep /\ UNCHANGED notList)
  /\ WF_vars(GetBatchStatistics("list") /\ UNCHANGED notList)
  /\ WF_vars(GetBatchStatistics("direct") /\ UNCHANGED notList)

\* SpecOverlap: the role has any rows to begin with and NumRuns aggregations
\* of it, started by successive monitor iterations, are inside
\* _create_role_prompt
InitOverlapSpec ==
  /\ InitDb /\ InitRoutes /\ InitBatch /\ InitGateway /\ InitSync /\ InitApi
  /\ InitDispatch /\ InitCrud /\ InitStat /\ InitMerge /\ InitExtract /\ InitList
  /\ InitLast
  /\ role_prompt \in InitRows
  /\ agg = IdleAgg
  /\ written = <<>>
  /\ aggLast = FALSE
  /\ aggRet = NoAggRet
  /\ runs = [k \in AggRuns |-> [IdleRun EXCEPT !.pc = "create"]]

notOverlap == <<dbVars, routeVars, batchVars, clock, rlVars, cbVars, agg, written,
                aggLast, aggRet, syncVars, apiVars, dispVars, crudVars, statVars,
                mergeVars, extractVars, listVars, lastVars>>

NextOverlap ==
  \/ (\E k \in AggRuns : RunReadLatest(k)) /\ UNCHANGED notOverlap
  \/ (\E k \in AggRuns : RunInsert(k)) /\ UNCHANGED notOverlap
  \/ (\E k \in AggRuns : RunDeactivate(k)) /\ UNCHANGED notOverlap

SpecOverlap == InitOverlapSpec /\ [][NextOverlap]_vars

\* SpecJson: one execute_task on any task command and any text of the provider
InitJsonSpec ==
  /\ InitEarly /\ InitList /\ InitOverlap /\ InitConn
  /\ \E task_cmd \in Commands, content \in ProviderTexts :
       jx = [pc |-> "ready", task_cmd |-> task_cmd, content |-> content,
             result |-> NoValue, stored |-> NoStored]

notJson == <<earlyVars, listVars, overlapVars, connVars>>

NextJson ==
  \/ CallAiApi /\ UNCHANGED notJson
  \/ StoreResult /\ UNCHANGED notJson

SpecJson == InitJsonSpec /\ [][NextJson]_vars

\* SpecConn: requests to the three handlers, one after the other
InitConnSpec == InitEarly /\ InitList /\ InitOverlap /\ InitJson /\ InitConn

notConn == <<earlyVars, listVars, overlapVars, jsonVars>>

NextConn ==
  \/ (\E store \in StoreStates, action \in RequestActions, result \in BOOLEAN,
         raise_at \in {"none", "from_url", "action", "statistics"} :
           batch_action_redis(store, action, result, raise_at))
       /\ UNCHANGED notConn
  \/ (\E store \in StoreStates, raise_at \in {"none", "from_url", "statistics"} :
         get_batch_status_redis(store, raise_at))
       /\ UNCHANGED notConn
  \/ (\E store \in StoreStates, raise_at \in {"none", "from_url"} :
         delete_batch_redis(store, raise_at))
       /\ UNCHANGED notConn

SpecConn == InitConnSpec /\ [][NextConn]_vars

\* ------------------------------------------------------------------------
\* Properties of the task lifecycle (Spec)
\* ------------------------------------------------------------------------

\* C1: the start action succeeds only from P or F and then commits W before
\* the hand-off to the executor: a request waits for its hand-off only after
\* the step that read P or F and wrote W, a thread is launched only by the
\* hand-off of such a request and only then is 200 answered; from any other
\* state the answer is 400 and that step changes neither task_state nor
\* role_item_prompt, and launches nothing.
C1_StartOnlyFromPOrF ==
  [][ /\ BagCardinality(startReq') > BagCardinality(startReq) =>
           \E t \in Tasks :
             /\ task_state[t] \in {"P", "F"}
             /\ task_state'[t] = "W"
             /\ startReq' = Put(startReq, [task |-> t, seen |-> task_state[t]])
             /\ UNCHANGED <<th, role_item_prompt>>
      /\ BagCardinality(th') > BagCardinality(th) =>
           \E q \in BagToSet(startReq) :
             /\ q.seen \in {"P", "F"}
             /\ startReq' = Drop(startReq, q)
             /\ th' = Put(th, NewThread(q.task))
             /\ lastResp' = Resp("start", q.task, q.seen, 200)
      /\ (lastResp'.kind = "start" /\ lastResp'.code = 200) =>
           /\ lastResp'.seen \in {"P", "F"}
           /\ BagCardinality(th') > BagCardinality(th)
      /\ (lastResp'.kind = "start" /\ lastResp'.code = 400) =>
           /\ task_state[lastResp'.task] = lastResp'.seen
           /\ lastResp'.seen \in {"W", "R", "C", "Q", "T", "X", "S"}
           /\ UNCHANGED <<task_state, role_item_prompt, th, startReq>>
      /\ (lastResp'.kind = "start" /\ lastResp'.code \notin {200, 400}) =>
           /\ BagIn([task |-> lastResp'.task, seen |-> lastResp'.seen], startReq)
           /\ UNCHANGED th
    ]_vars

\* C1 witness: a start was accepted and its execution launched (the task is R
\* and a thread is working on it), and a second start has just been rejected
C1_Witness ==
  /\ lastResp = Resp("start", 1, "R", 400)
  /\ task_state[1] = "R"
  /\ \E x \in BagToSet(th) : x.task = 1 /\ x.pc = "running"

\* C2: the stop action succeeds only from W or R: it then sets F and writes a
\* role_item_prompt whose previous_state is the state the task had just before
\* the stop; from any other state the answer is 400 and the task is unchanged.
C2_StopOnlyFromWOrR ==
  [][ \A t \in Tasks :
        (lastResp'.kind = "stop" /\ lastResp'.task = t) =>
          IF task_state[t] \in {"W", "R"}
            THEN /\ lastResp'.code = 200
                 /\ task_state'[t] = "F"
                 /\ role_item_prompt'[t].kind = "stopped"
                 /\ role_item_prompt'[t].previous_state = task_state[t]
            ELSE /\ lastResp'.code = 400
                 /\ UNCHANGED <<task_state, role_item_prompt>>
    ]_vars

\* C2 witness: a running task has just been stopped
C2_Witness ==
  /\ lastResp = Resp("stop", 1, "R", 200)
  /\ task_state[1] = "F"
  /\ role_item_prompt[1] = StoppedPrompt("R")

\* the commit histories of the executions: those in flight and the one that
\* has just ended
Runs == {[hist |-> x.hist, cfail |-> x.cfail, rfail |-> x.rfail] :
           x \in BagToSet(th)}
        \cup (IF lastRun.ended
                THEN {[hist |-> lastRun.hist, cfail |-> lastRun.cfail,
                       rfail |-> lastRun.rfail]}
                ELSE {})

Terminal(s) == s \in {"C", "F"}

\* C3 as stated: in every execution R is committed before any terminal state
\* and at most one terminal state is committed.
C3_AsStated ==
  \A r \in Runs :
    /\ \A i \in 1..Len(r.hist) : Terminal(r.hist[i]) => (i = 2 /\ r.hist[1] = "R")
    /\ Len(r.hist) <= 2

\* C3 (amended): an execution commits at most one terminal state and nothing
\* after it; R is committed before the terminal state unless loading the task
\* or committing R raised, and then the only write is the F of the except
\* block; C is committed at the first or the second attempt, and the fall-back
\* to F after a failed commit of C comes only after two failed commits.
C3_ExecutionOrder ==
  \A r \in Runs :
    /\ r.hist \in {<<>>, <<"R">>, <<"R", "C">>, <<"R", "F">>, <<"F">>}
    /\ r.hist = <<"F">> => r.rfail
    /\ r.rfail => r.hist \in {<<>>, <<"F">>}
    /\ r.hist = <<"R", "C">> => r.cfail \in {0, 1}
    /\ r.hist = <<"R", "F">> => r.cfail \in {0, 2}

\* C3 witness: an execution whose two commits of C failed has just ended with F
C3_Witness ==
  /\ lastRun.ended
  /\ lastRun.hist = <<"R", "F">>
  /\ lastRun.cfail = 2

\* the execute_task that has just ended returned True: its last write was C
RunSucceeded == lastRun.ended /\ lastRun.hist # <<>>
                  /\ lastRun.hist[Len(lastRun.hist)] = "C"

\* the threads working on task t
ThreadsOf(t) == {x \in BagToSet(th) : x.task = t}

\* C25: when an execution ends with the result while its task's row holds the
\* payload of the stop route, the row is overwritten: the task is C with the
\* generated result, and the stop payload with its previous_state is gone.
C25_ExecutionOverwritesStop ==
  (RunSucceeded /\ lastRun.over.kind = "stopped") =>
    /\ task_state[lastRun.task] = "C"
    /\ role_item_prompt[lastRun.task] = ResultPrompt

\* C25 witness: the task was stopped while running, the provider call then
\* succeeded and the execution has just committed C over the stop payload
C25_Witness ==
  /\ RunSucceeded
  /\ lastRun.task = 1
  /\ lastRun.hist = <<"R", "C">>
  /\ lastRun.over = StoppedPrompt("R")
  /\ task_state[1] = "C"
  /\ role_item_prompt[1] = ResultPrompt

\* C26 as stated: when the background thread of a task has ended without
\* success and nothing else is working on the task, the task is not W or R.
C26_AsStated ==
  (lastRun.ended /\ ~RunSucceeded /\ ThreadsOf(lastRun.task) = {}
     /\ \A q \in BagToSet(startReq) : q.task # lastRun.task)
    => task_state[lastRun.task] \notin {"W", "R"}

\* C27 as stated: at most one executor thread works on a task.
C27_AsStated ==
  \A t \in Tasks : \A x \in ThreadsOf(t) :
    CopiesIn(x, th) = 1 /\ ThreadsOf(t) = {x}

\* ------------------------------------------------------------------------
\* Properties of the batch manager (SpecBatch)
\* ------------------------------------------------------------------------

StatedEdges ==
  {<<"PENDING", "RUNNING">>, <<"RUNNING", "COMPLETED">>, <<"RUNNING", "FAILED">>,
   <<"RUNNING", "CANCELLED">>, <<"RUNNING", "PAUSED">>, <<"PAUSED", "RUNNING">>}

Permitted(a, s) ==
  CASE a = "start" -> s = "PENDING"
    [] a = "pause" -> s = "RUNNING"
    [] a = "resume" -> s = "PAUSED"
    [] a = "cancel" -> s \notin {"COMPLETED", "FAILED", "CANCELLED"}

C7_AtMostNPerWindow ==
  /\ Len(recent) <= max_requests
  /\ \A i \in 1..Len(recent) : clock - recent[i] < 60
  /\ rlLast.done /\ rlLast.waited =>
       /\ clock - rlLast.oldest >= 60
       /\ recent[Len(recent)] = clock
  /\ sleeper.c # 0 => Len(requests) = max_requests

C7_Witness ==
  /\ rlLast.done /\ rlLast.waited
  /\ Len(recent) = max_requests

\* C8: the failure that makes failure_threshold consecutive failures opens the
\* breaker; while the breaker is open and fewer than timeout seconds have
\* passed since it opened, an admission check answers CIRCUIT_BREAKER_OPEN
\* without a provider call; a recorded success, whatever the state before it,
\* leaves failure_count = 0 and the state CLOSED.
C8_BreakerOpensAndResets ==
  [][ /\ (callRet'.op = "returned" /\ ~callRet'.success
            /\ consec' >= failure_threshold) => cb'.state = "OPEN"
      /\ (callRet'.op \in {"admitted", "rejected"} /\ cb.state = "OPEN"
            /\ clock - openedAt < 60) =>
           /\ callRet'.op = "rejected"
           /\ callRet'.error_code = "CIRCUIT_BREAKER_OPEN"
           /\ ~callRet'.called
           /\ callpc' = callpc
           /\ cb'.state = "OPEN"
      /\ (callRet'.op = "returned" /\ callRet'.success) =>
           /\ cb'.failure_count = 0
           /\ cb'.state = "CLOSED"
    ]_vars

C8_Witness ==
  /\ callRet.op = "returned" /\ callRet.success
  /\ callRet.before = "OPEN"
  /\ cb.state = "CLOSED"
  /\ openedAt > 0

\* C9: call_generate_api returns an envelope on every path and raises nothing;
\* a failed provider call (timeout, network error, non-200 answer, unsupported
\* provider, unexpected exception) comes back with success = false and an
\* error code and adds exactly one failure to the breaker; the
\* CIRCUIT_BREAKER_OPEN answer adds none; a successful provider call records a
\* success.
C9_FailuresAreEnvelopes ==
  [][ /\ ~callRet'.raised
      /\ (callRet'.op = "returned" /\ ~callRet'.success) =>
           /\ callRet'.error_code \in {"TIMEOUT", "NETWORK_ERROR", "HTTP_STATUS",
                                        "UNSUPPORTED_PROVIDER", "API_EXCEPTION"}
           /\ cb'.failure_count = cb.failure_count + 1
           /\ consec' = consec + 1
      /\ callRet'.op = "rejected" =>
           /\ ~callRet'.success
           /\ callRet'.error_code = "CIRCUIT_BREAKER_OPEN"
           /\ cb' = cb /\ consec' = consec
      /\ (callRet'.op = "returned" /\ callRet'.success) =>
           /\ cb'.failure_count = 0
           /\ consec' = 0
    ]_vars

C9_Witness ==
  /\ callRet.op = "returned" /\ ~callRet.success
  /\ callRet.error_code = "API_EXCEPTION"
  /\ cb.failure_count > failure_threshold

\* ------------------------------------------------------------------------
\* Properties of the aggregation
\* ------------------------------------------------------------------------

\* C10: the rows written by aggregations of one role that run one after the
\* other have strictly increasing versions, each the largest version the role
\* had plus 1 (1 when it had no row); when an aggregation has finished, the row
\* it wrote is the only row of the role with is_active = "Y".
C10_VersionsIncrease ==
  /\ \A i \in 1..Len(written) :
       written[i].version = (IF written[i].none THEN 0 ELSE written[i].maxBefore) + 1
  /\ \A i, j \in 1..Len(written) : i < j => written[i].version < written[j].version
  /\ aggLast =>
       /\ role_prompt[Len(role_prompt)].version = written[Len(written)].version
       /\ \A k \in 1..Len(role_prompt) :
            role_prompt[k].is_active = "Y" <=> k = Len(role_prompt)

C10_Witness ==
  /\ aggLast
  /\ Len(written) = MaxAggs
  /\ Len(role_prompt) = MaxInitRows + MaxAggs

\* C11: when the post-processed content scores below 0.5, the aggregation
\* returns an error result and leaves every role_prompt row as it was; a role
\* whose aggregated content is 20 characters long or less scores below 0.5 and
\* is rejected.
C11_LowQualityRejected ==
  [][ /\ aggRet'.error = "quality" =>
           /\ aggRet'.result = "error"
           /\ role_prompt' = role_prompt
           /\ agg' = agg /\ agg.pc = "idle"
           /\ \/ aggRet'.content.len < 50
              \/ aggRet'.content.len < 100 /\ ~aggRet'.content.punct
      /\ aggRet'.short =>
           /\ aggRet'.result = "error" /\ aggRet'.error = "quality"
           /\ role_prompt' = role_prompt
    ]_vars

C11_Witness ==
  /\ aggRet.result = "error" /\ aggRet.error = "quality"
  /\ aggRet.short /\ aggRet.content.len = 20
  /\ \E k \in 1..Len(role_prompt) : role_prompt[k].is_active = "Y"

Carries(t, b) == LikeBatch(task_name[t], b)
NewRows == SubSeq(role_prompt', Len(role_prompt) + 1, Len(role_prompt'))

\* C13 as stated: whenever a task carrying the batch number is not in state C,
\* the number is reported as skipped for being incomplete.
C13_AsStated ==
  [][ (sync.pc = "loop" /\ sync.todo # <<>> /\ sync'.pc = "loop"
         /\ \E t \in Tasks : /\ Carries(t, Head(sync.todo))
                             /\ task_state[t] # "C") =>
        sync'.results[Head(sync.todo)] = "skipped:incomplete"
    ]_vars

\* C13: when a task carrying the batch number is not in state C, the number is
\* reported as skipped for being incomplete, or as an error when a statement
\* of its iteration raises; the iteration adds no row and marks no task, and
\* the commit of the request writes no row of that version and changes no task
\* carrying the number.
C13_IncompleteBatchSkipped ==
  [][ /\ (sync.pc = "loop" /\ sync.todo # <<>> /\ sync'.pc = "loop"
            /\ \E t \in Tasks : /\ Carries(t, Head(sync.todo))
                                /\ task_state[t] # "C") =>
           /\ sync'.results[Head(sync.todo)] =
                IF Head(sync.todo) \in sync'.raised THEN "error"
                ELSE "skipped:incomplete"
           /\ sync'.rows = sync.rows
           /\ sync'.synced = sync.synced
      /\ (sync.pc = "loop" /\ sync'.pc = "idle") =>
           \A b \in BatchNumbers :
             (\/ sync.results[b] = "skipped:incomplete"
              \/ sync.results[b] = "error" /\ b \in sync.raised) =>
               /\ \A i \in 1..Len(NewRows) :
                    NewRows[i].version # (IF b = "1" THEN 1 ELSE 2)
               /\ \A t \in Tasks :
                    (Len(task_name[t]) >= 3 /\ task_name[t][2] = b) =>
                      task_state'[t] = task_state[t]
    ]_vars

C13_Witness ==
  /\ syncResp.code = 200
  /\ \E b \in BatchNumbers : syncResp.results[b] = "skipped:incomplete"
  /\ \E t \in Tasks : task_state[t] = "C"

Committed(b) ==
  /\ \E i \in 1..Len(role_prompt) : role_prompt[i].version = (IF b = "1" THEN 1 ELSE 2)
  /\ \E t \in Tasks : task_name[t][2] = b /\ task_state[t] = "S"

\* C14: when an error arises in the iteration of one batch number, the request
\* still answers; only that number is reported as an error; the numbers
\* reported as success have their rows and their S states in the database.
C14_AsStated ==
  syncResp.failed # {} =>
    /\ syncResp.code = 200
    /\ syncResp.raised = syncResp.failed
    /\ \A b \in BatchNumbers : syncResp.results[b] = "success" => Committed(b)

\* ------------------------------------------------------------------------
\* Properties of the API router
\* ------------------------------------------------------------------------

\* C15: a request of an authenticated user who is not a superuser to a handler
\* of the Batch Execution API is answered Forbidden and the body of the
\* handler does not run.
C15_AsStated ==
  /\ (apiResp.handler \in BatchHandlers /\ apiResp.caller = "user") =>
       apiResp.code = 403 /\ ~apiResp.ran
  /\ \A h \in BatchHandlers : <<h, "user">> \notin performed

\* C16: outside the local environment no route of the private router is
\* mounted: a request to one finds no route and its body does not run.
C16_AsStated ==
  environment # "local" =>
    /\ apiResp.handler \in PrivateHandlers => apiResp.code = 404 /\ ~apiResp.ran
    /\ \A h \in PrivateHandlers, c \in ApiCallers : <<h, c>> \notin performed

\* C17: when the hand-off to the executor raises during start (W is already
\* committed), the route commits F together with the start-failure payload
\* (prefixed error message and failed_at) and answers with a failure; the
\* request leaves the task in F, never in W.
C17_StartFailureResetsToF ==
  [][ (lastResp'.kind = "start" /\ lastResp'.code = 500) =>
        /\ BagIn([task |-> lastResp'.task, seen |-> lastResp'.seen], startReq)
        /\ task_state'[lastResp'.task] = "F"
        /\ role_item_prompt'[lastResp'.task].kind = "start_failed"
        /\ UNCHANGED th
    ]_vars

\* C17 witness: a start of task 1 read P, committed W, the hand-off raised and
\* the route has just answered 500 with the task in F and the payload stored
C17_Witness ==
  /\ lastResp = Resp("start", 1, "P", 500)
  /\ task_state[1] = "F"
  /\ role_item_prompt[1].kind = "start_failed"

\* C18: dispatch_tasks ends in one of two ways. It returns one job id per
\* task, in the order of the tasks, every one of these jobs enqueued; or a
\* failure part-way makes it try to cancel every job it had created and raise
\* RuntimeError. It never returns the ids of a part of the tasks.
C18_DispatchAllOrNothing ==
  /\ dspRet.kind = "return" =>
       /\ Len(dspRet.ids) = Len(dspRet.tasks)
       /\ \A n \in 1..Len(dspRet.tasks) :
            /\ dspRet.ids[n] = JobId(dspRet.tasks[n])
            /\ rq[dspRet.tasks[n]] \in {"queued", "started"}
  /\ dspRet.kind = "RuntimeError" =>
       /\ Len(dspRet.ids) <= Len(dspRet.tasks)
       /\ dspRet.tried = dspRet.ids
  /\ dspRet.kind \in {"none", "return", "RuntimeError"}

\* C18 witness: of two tasks the first was enqueued, the second iteration
\* failed, the first job was cancelled and RuntimeError raised
C18_Witness ==
  /\ dspRet.kind = "RuntimeError"
  /\ Len(dspRet.tasks) = 2
  /\ dspRet.ids = <<JobId(dspRet.tasks[1])>>
  /\ dspRet.tried = dspRet.ids
  /\ rq[dspRet.tasks[1]] = "canceled"

\* C19: RoleDir create and update requests never leave two roles_dir rows with
\* the same ip. A create with the ip of an existing row, and an update that
\* changes the ip of a row to the ip of another row, are answered with a 4xx
\* code and leave every row as it was.
C19_RoleDirIpUnique ==
  /\ [](\A a, b \in DirIds :
          (a # b /\ roles_dir[a] # NoRow) => roles_dir[a] # roles_dir[b])
  /\ [][ /\ (/\ crudResp'.op = "create_role_dir"
             /\ \E d \in DirIds : roles_dir[d] = crudResp'.ip) =>
              /\ crudResp'.code \in 400..499
              /\ UNCHANGED <<roles_dir, roles_tbl>>
         /\ (/\ crudResp'.op = "update_role_dir"
             /\ \E d \in DirIds \ {crudResp'.id} : roles_dir[d] = crudResp'.ip) =>
              /\ crudResp'.code \in 400..499
              /\ UNCHANGED <<roles_dir, roles_tbl>>
       ]_vars

\* C19 witness: two rows with different ips exist and an update of row 1 to
\* the ip of row 2 has just been refused with 409
C19_Witness ==
  /\ crudResp.op = "update_role_dir" /\ crudResp.code = 409 /\ crudResp.id = 1
  /\ roles_dir[1] # NoRow /\ roles_dir[2] # NoRow
  /\ crudResp.ip = roles_dir[2]

\* C20 as stated: a Role create, or a Role update that changes ip_id, naming an
\* ip_id without a roles_dir row is answered with a 4xx code and writes no
\* Role row.
C20_AsStated ==
  [][ /\ (/\ crudResp'.op = "create_role"
          /\ get_role_dir(crudResp'.ip_id) = NoRow) =>
           /\ crudResp'.code \in 400..499
           /\ UNCHANGED roles_tbl
      /\ (/\ crudResp'.op = "update_role"
          /\ crudResp'.id \in RoleIds
          /\ roles_tbl[crudResp'.id] # NoRole
          /\ crudResp'.ip_id # UnsetId
          /\ crudResp'.ip_id # roles_tbl[crudResp'.id].ip_id
          /\ get_role_dir(crudResp'.ip_id) = NoRow) =>
           /\ crudResp'.code \in 400..499
           /\ UNCHANGED roles_tbl
    ]_vars

\* C21: a PATCH update that is carried out leaves every field missing from its
\* payload at the stored value and sets every field of the payload to the
\* value given; this holds of the Role, RoleDir and task update routes (a
\* request without name and with create_from keeps name and sets create_from).
C21_PatchKeepsOmittedFields ==
  [][ /\ (crudResp'.op = "update_role" /\ crudResp'.code = 200) =>
           LET old == roles_tbl[crudResp'.id]
               new == roles_tbl'[crudResp'.id]
               p == crudResp'
           IN /\ new.name = IF p.ip = Unset THEN old.name ELSE p.ip
              /\ new.ip_id = IF p.ip_id = UnsetId THEN old.ip_id ELSE p.ip_id
              /\ new.create_from =
                   IF p.create_from = Unset THEN old.create_from ELSE p.create_from
              /\ \A r \in RoleIds \ {p.id} : roles_tbl'[r] = roles_tbl[r]
      /\ (crudResp'.op = "update_role_dir" /\ crudResp'.code = 200) =>
           LET p == crudResp'
           IN /\ roles_dir'[p.id] = IF p.ip = Unset THEN roles_dir[p.id] ELSE p.ip
              /\ \A d \in DirIds \ {p.id} : roles_dir'[d] = roles_dir[d]
      /\ (crudResp'.op = "update_task" /\ crudResp'.code = 200) =>
           LET p == crudResp'
               t == crudResp'.id
           IN /\ task_name'[t] =
                   IF p.task_name = UnsetName THEN task_name[t] ELSE p.task_name
              /\ task_state'[t] =
                   IF p.task_state = Unset THEN task_state[t] ELSE p.task_state
              /\ role_item_prompt'[t] =
                   IF p.role_item_prompt = UnsetPrompt THEN role_item_prompt[t]
                   ELSE p.role_item_prompt
              /\ task_role'[t] =
                   IF p.role_id = Unset THEN task_role[t] ELSE p.role_id
              /\ \A u \in Tasks \ {t} :
                   /\ task_name'[u] = task_name[u]
                   /\ task_state'[u] = task_state[u]
                   /\ role_item_prompt'[u] = role_item_prompt[u]
    ]_vars

\* C21 witness: a request on role 1 that left out name and ip_id and gave
\* create_from has been carried out; the row holds the create_from given and a
\* name of its own
C21_Witness ==
  /\ crudResp.op = "update_role" /\ crudResp.code = 200 /\ crudResp.id = 1
  /\ crudResp.ip = Unset /\ crudResp.ip_id = UnsetId
  /\ crudResp.create_from = "web"
  /\ roles_tbl[1].create_from = "web"
  /\ roles_tbl[1].name \in RoleNames

\* the double nearest to the exact 100 * a / b
NearestPercent ==
  [a \in 0..MaxTotal, b \in 1..MaxTotal |-> FloatDiv(100 * a, b)]

\* two doubles are equal or next to each other
FloatNear(x, y) == x = y \/ (x # FloatZero /\ FloatSucc(x) = y)
                         \/ (y # FloatZero /\ FloatSucc(y) = x)

AppendsMissing(q, p, s) ==
  /\ Len(q) >= Len(p)
  /\ SubSeq(q, 1, Len(p)) = p
  /\ ElementsOf(q) = ElementsOf(p) \cup ElementsOf(s)
  /\ \A i, j \in (Len(p) + 1)..Len(q) :
       /\ q[i] \notin ElementsOf(p)
       /\ i < j =>
            /\ q[i] # q[j]
            /\ \E m \in DOMAIN s : s[m] = q[i] /\ \A n \in 1..m : s[n] # q[j]

\* a scalar-valued dict r is t with the keys of s added and set to s's values
InnerMerged(r, t, s) ==
  \A k \in DOMAIN r : r[k] = IF s[k].t # "-" THEN s[k] ELSE t[k]

\* C23: _deep_merge_dict(target, source) leaves a target that has the keys of
\* both; dicts under a common key are merged in the same way, a list under a
\* common key keeps its elements in order and gains the source elements it
\* lacked, anything else takes the source's value; the example of the
\* specification comes out as stated, and a second merge of the same source
\* changes nothing.
C23_DeepMerge ==
  dmerge.n >= 1 =>
    /\ \A k \in DOMAIN dmerge.target :
         LET r == dmerge.target[k]
             t == dmerge.target0[k]
             s == dmerge.source[k]
         IN /\ (r.t # "-") <=> (t.t # "-" \/ s.t # "-")
            /\ s.t = "-" => r = t
            /\ (s.t # "-" /\ t.t = "-") => r = s
            /\ (s.t = "d" /\ t.t = "d") => r.t = "d" /\ InnerMerged(r.d, t.d, s.d)
            /\ (s.t = "l" /\ t.t = "l") => r.t = "l" /\ AppendsMissing(r.l, t.l, s.l)
            /\ (s.t # "-" /\ t.t # "-" /\ ~(s.t = t.t /\ s.t \in {"d", "l"})) => r = s
    /\ dmerge.n = 2 => dmerge.target = deep_merge_dict(dmerge.target0, dmerge.source)

\* C23 witness: {a: {x: 1}, b: [1, 2]} was merged twice into
\* {a: {y: 2}, b: [2, 3]} and the target is {a: {x: 1, y: 2}, b: [2, 3, 1]}
C23_Witness ==
  /\ dmerge.n = 2
  /\ dmerge.source = [a |-> Dict1([x |-> Scalar2(1), y |-> Absent2]),
                      b |-> List1(<<1, 2>>)]
  /\ dmerge.target0 = [a |-> Dict1([x |-> Absent2, y |-> Scalar2(2)]),
                       b |-> List1(<<2, 3>>)]
  /\ dmerge.target = [a |-> Dict1([x |-> Scalar2(1), y |-> Scalar2(2)]),
                      b |-> List1(<<2, 3, 1>>)]

\* the text has a first and a second dash with digits and nothing else, at
\* least one, between them, and number is the text between the two
SecondSegmentDigits(text, number) ==
  \E i, j \in DOMAIN text :
    /\ i < j /\ text[i] = "-" /\ text[j] = "-"
    /\ \A k \in 1..(j - 1) : k # i => text[k] # "-"
    /\ j > i + 1
    /\ \A k \in (i + 1)..(j - 1) : text[k] \in DigitChars
    /\ number = SubSeq(text, i + 1, j - 1)

\* C24: the batch number extracted from a name is its second dash-separated
\* segment exactly when the name has three segments or more and that segment
\* is made of digits, and is empty otherwise; a task is in the group of the
\* number extracted from its name and in no other, and a task without a
\* number is in no group.
C24_BatchNumberExtraction ==
  xb.done =>
    /\ \A t \in DOMAIN xb.names :
         IF \E number \in {SubSeq(xb.names[t], i, j) : i, j \in DOMAIN xb.names[t]} :
              SecondSegmentDigits(xb.names[t], number)
           THEN SecondSegmentDigits(xb.names[t], xb.numbers[t])
           ELSE xb.numbers[t] = <<>>
    /\ \A b \in DOMAIN xb.groups : b # <<>>
    /\ \A t \in DOMAIN xb.names : \A b \in DOMAIN xb.groups :
         (t \in ElementsOf(xb.groups[b])) <=> (xb.numbers[t] = b)

\* C24 witness: a-12- gave the number 12 and is alone in group 12, the second
\* task, named a, gave no number
C24_Witness ==
  /\ xb.done
  /\ xb.names = << <<"a", "-", "1", "2", "-">>, <<"a">> >>
  /\ xb.numbers = << <<"1", "2">>, <<>> >>
  /\ DOMAIN xb.groups = {<<"1", "2">>}
  /\ xb.groups[<<"1", "2">>] = <<1>>

C29_AsStated ==
  dspRet.kind = "return" =>
    \A n \in 1..Len(dspRet.tasks) : task_state[dspRet.tasks[n]] = "Q"

RECURSIVE UnfinishedFrom(_)
UnfinishedFrom(b) ==
  IF b > MaxBatches THEN <<>>
  ELSE (IF active_batches[b] # NoBatch /\ ~is_finished(active_batches[b])
          THEN <<b>> ELSE <<>>) \o UnfinishedFrom(b + 1)

\* C32 as stated: a call of list_active_batches returns, and what it returns
\* has one entry for each batch of the map that is not finished.
C32_AsStated ==
  /\ (lst.pc = "loop") ~> (lst.pc = "returned")
  /\ [](lst.pc = "returned" => lst.out = UnfinishedFrom(1))

C34_AsStated ==
  [][ /\ (callRet'.op \in {"admitted", "rejected"} /\ cb.state = "OPEN"
            /\ clock - cb.last_failure_time > timeout) =>
           callRet'.op = "admitted" /\ cb'.state = "HALF_OPEN"
      /\ (callRet'.op \in {"admitted", "rejected"} /\ cb.state = "HALF_OPEN") =>
           callRet'.op = "rejected"
    ]_vars

C36_AsStated ==
  /\ \A j, k \in AggRuns :
       (j # k /\ runs[j].pc \in {"deactivate", "done"}
              /\ runs[k].pc \in {"deactivate", "done"})
         => runs[j].new_version # runs[k].new_version
  /\ (\A k \in AggRuns : runs[k].pc = "done") =>
       Cardinality({i \in DOMAIN role_prompt : role_prompt[i].is_active = "Y"}) <= 1

\* C37: after any sequence of completed aggregator writes and synchronizer
\* writes, every role has at most one RolePrompt row with is_active = "Y".
\* Stated as the claim has it; the synchronizer alone refutes it.
C37_AsStated ==
  \A r \in Roles :
    Cardinality({i \in DOMAIN role_prompt :
                   role_prompt[i].role = r /\ role_prompt[i].is_active = "Y"}) <= 1

\* C38: the synchronizer never writes a second RolePrompt row of a role and
\* version that has a row already: among the rows committed by earlier
\* requests and the rows the request in progress has added, no two have the
\* same role and the same version.
C38_OneRowPerRoleAndVersion ==
  \A i, j \in DOMAIN SessionRows :
    i # j => ~(/\ SessionRows[i].role = SessionRows[j].role
               /\ SessionRows[i].version = SessionRows[j].version)

\* a later request has come to a complete batch whose role has its row from
\* an earlier request, and has written no row for it
C38_Witness ==
  /\ sync.pc = "loop"
  /\ \E b \in BatchNumbers :
       /\ sync.results[b] = "error" /\ b \notin sync.raised
       /\ \E i \in DOMAIN role_prompt : role_prompt[i].version = IntOf(b)

\* C39: the two JSON-task tests of the executor agree: after a successful
\* execution of a command that the executor treats as a JSON task when it
\* repairs the provider output, the repaired structure is stored directly,
\* and the {content, generated_at} wrapper is used only for a command that
\* is not such a JSON task.  Stated as the claim has it.
C39_AsStated ==
  jx.pc = "stored" =>
    (is_json_task(prepare_task_command(jx.task_cmd)) <=> jx.stored.form = "direct")

\* C40: a request to batch_action, get_batch_status or delete_batch that has
\* opened a connection to the key-value store has closed it when it ends,
\* whatever the answer.  Stated as the claim has it.
C40_AsStated == connResp.opened => connResp.closed
====
